---- MODULE Spec2Model ----
(***************************************************************************)
(* A model of the s390x wheel refinery: the Builder's attempt loop         *)
(* (builder.py), the Resolver (resolver.py, scanner.py,                    *)
(* dependency_expander.py), the Scheduler (scheduler.py) and the run       *)
(* driver (cli.py), each translated from its source.                       *)
(*                                                                         *)
(* Python exceptions are modelled by name: an operation that raises ends   *)
(* with the name of the exception class in the `error` field of its frame. *)
(***************************************************************************)
EXTENDS Integers, Sequences, FiniteSets, TLC

VARIABLES
    cfg,             \* RefineryConfig: the fields the builder reads
    overrides,       \* config.overrides: package name -> PackageOverride
    cache_wheels,    \* the wheel files in <cache>/wheels
    output_dir,      \* the wheel files copied to the output directory
    attempt_counts,  \* WheelBuilder._attempt_counts
    completed,       \* WheelBuilder._completed
    events,          \* the rows of build_events, in id order
    frame,           \* per thread: the build_job call it is running
    performed,       \* per key: number of _attempt_build calls made so far
    terminal,        \* keys for which a build_job call has raised after line 115
    calls,           \* number of build_job calls started so far
    ensure_ready_once, \* WheelBuilder._ensure_ready_once
    resolver,        \* the build_plan call: its inputs, locals and result
    sched,           \* the schedule_jobs call: its inputs and result
    run,             \* cli.main: its arguments, its position, its manifest
    worker           \* retry_queue.json and the process_queue call that reads it

\* The variables of the builder and of its callers.
bvars == <<cfg, overrides, cache_wheels, output_dir, attempt_counts, completed,
           events, frame, performed, terminal, calls, ensure_ready_once>>

vars == <<cfg, overrides, cache_wheels, output_dir, attempt_counts, completed,
          events, frame, performed, terminal, calls, ensure_ready_once,
          resolver, sched, run, worker>>

----------------------------------------------------------------------------
\* Bounds of the exploration.

\* Largest configured max_attempts explored.
MaxAttemptsBound == 4
\* build_job calls per behaviour of SpecBuilder.
MaxCalls == 2
\* Longest Requires-Dist list of the wheel "app" handed to build_plan.
MaxReqs == 2
\* Longest job list handed to schedule_jobs.
MaxJobs == 2
\* Direct calls of _apply_suggestion on one builder.
MaxApplications == 3

----------------------------------------------------------------------------
\* Small helpers.

Min(a, b) == IF a < b THEN a ELSE b
Max(a, b) == IF a > b THEN a ELSE b

RECURSIVE Pow2(_)
Pow2(n) == IF n <= 0 THEN 1 ELSE 2 * Pow2(n - 1)

\* str.lower() on the names the model uses.
Lower(s) ==
    CASE s \in {"Dep", "DEP"} -> "dep"
      [] s = "Lib" -> "lib"
      [] s = "PurePkg" -> "purepkg"
      [] s = "App" -> "app"
      [] OTHER -> s

\* packaging.utils.canonicalize_name on the names the model uses: lowercase,
\* runs of "-", "_" and "." become one "-".
CanonicalName(s) ==
    CASE s = "my_pkg" -> "my-pkg"
      [] OTHER -> Lower(s)

\* The target tags of the run: config.python_tag and config.target_platform_tag.
PythonTag == "cp311"
PlatformTag == "manylinux2014_s390x"

\* str.endswith("_s390x") on the platform tags the model uses.
EndsWithS390x(p) == p \in {"manylinux2014_s390x", "linux_s390x"}

\* str.startswith("py3") on the interpreter tags the model uses.
StartsWithPy3(i) == i \in {"py3", "py39"}

----------------------------------------------------------------------------
\* Jobs (models.BuildJob) and keys.

Job(n, v, r, d, ps) ==
    [name |-> n, version |-> v, reason |-> r, depth |-> d, parents |-> ps]

NoJob == Job("", "", "", 0, {})

\* key = (job.name.lower(), job.version)
KeyOf(job) == <<Lower(job.name), job.version>>

\* The jobs SpecBuilder hands to build_job: a pinned dependency under two
\* spellings of its name, a name the wheel format rewrites, and an expansion
\* job (version "latest").
BuilderJobs ==
    { Job("dep", "1.0.0", "missing dependency", 0, {}),
      Job("Dep", "1.0.0", "missing dependency", 0, {}),
      Job("lib", "latest", "dependency expansion", 1, {"dep"}) }

AllKeys == { KeyOf(j) : j \in BuilderJobs } \cup
           { <<"lib", "2.0">>, <<"dep", "1.0">>, <<"dep", "2.0">> }

----------------------------------------------------------------------------
\* Wheel files of the cache directory.

\* A file name "<dist>-<version>-<interpreter>-<abi>-<platform>.whl".
WheelFile(d, v, i, p) == [dist |-> d, version |-> v, interpreter |-> i, platform |-> p]

NoFile == WheelFile("", "", "", "")

\* packaging.version.Version accepts these strings.
ValidVersion(v) == v \in {"1.0", "1.0.0", "2.0"}

\* packaging.utils.parse_wheel_filename: the canonical name, the version and
\* the tag of a file name, or a failure when the version does not parse.
parse_wheel_filename(f) ==
    IF ValidVersion(f.version)
    THEN [ok |-> TRUE, name |-> CanonicalName(f.dist), version |-> f.version,
          tags |-> { [interpreter |-> f.interpreter, platform |-> f.platform] }]
    ELSE [ok |-> FALSE, name |-> "", version |-> "", tags |-> {}]

\* The wheel a build backend leaves in the cache for a job when it writes one.
ProducedBy(job) ==
    IF Lower(job.name) = "dep"
    THEN { WheelFile("dep", "1.0.0", "cp311", "linux_s390x") }
    ELSE { WheelFile("lib", "2.0", "cp311", "linux_s390x") }

\* Files an earlier run can have left in the cache: a pure wheel of the pinned
\* dependency, a wheel of it for another platform, a file whose version does
\* not parse.
PrecachedFiles ==
    { WheelFile("Dep", "1.0.0", "py3", "any"),
      WheelFile("dep", "1.0.0", "cp311", "linux_x86_64"),
      WheelFile("dep", "latest", "py3", "any") }

\* The cache directories SpecBuilder starts from.
InitialCaches ==
    { {},
      { WheelFile("dep", "1.0.0", "cp311", "linux_x86_64"),
        WheelFile("dep", "latest", "py3", "any") },
      PrecachedFiles }

\* The sort order of sorted(self.cache_wheel_dir.glob("*.whl")).
FileRank(f) ==
    CASE f = WheelFile("Dep", "1.0.0", "py3", "any") -> 1
      [] f = WheelFile("dep", "1.0.0", "cp311", "linux_s390x") -> 2
      [] f = WheelFile("dep", "1.0.0", "cp311", "linux_x86_64") -> 3
      [] f = WheelFile("dep", "latest", "py3", "any") -> 4
      [] OTHER -> 5

\* A tag test that wants the platform tag itself: no "_s390x" family.
TagSatisfiesExactPlatform(tag, python_tag, platform_tag) ==
    LET python_ok == tag.interpreter \in {python_tag, "py3"} \/ StartsWithPy3(tag.interpreter)
        platform_ok == tag.platform = "any" \/ tag.platform = platform_tag
    IN python_ok /\ platform_ok

\* builder.py 228-234: one tag against the target (python_ok and platform_ok).
TagSatisfies(tag, python_tag, platform_tag) ==
    LET python_ok == tag.interpreter \in {python_tag, "py3"} \/ StartsWithPy3(tag.interpreter)
        platform_ok == \/ tag.platform = "any"
                       \/ tag.platform = platform_tag
                       \/ (EndsWithS390x(tag.platform) /\ EndsWithS390x(platform_tag))
    IN python_ok /\ platform_ok

\* One file of the cache against a job (the body of the loop of _find_cached).
CacheFileMatches(f, job) ==
    LET p == parse_wheel_filename(f)
    IN /\ p.ok
       /\ Lower(p.name) = Lower(job.name)
       /\ p.version = job.version
       /\ \E tag \in p.tags : TagSatisfies(tag, PythonTag, PlatformTag)

\* A _find_cached that takes any wheel for the target, whatever its name and
\* version.
_find_cached_any_name(job, cache) ==
    LET hits == { f \in cache : /\ parse_wheel_filename(f).ok
                                /\ \E tag \in parse_wheel_filename(f).tags :
                                      TagSatisfies(tag, PythonTag, PlatformTag) }
    IN IF hits = {} THEN NoFile
       ELSE CHOOSE f \in hits : \A g \in hits : FileRank(f) <= FileRank(g)

\* WheelBuilder._find_cached: the first matching file in sorted order, or NoFile.
_find_cached(job, cache) ==
    LET hits == { f \in cache : CacheFileMatches(f, job) }
    IN IF hits = {} THEN NoFile
       ELSE CHOOSE f \in hits : \A g \in hits : FileRank(f) <= FileRank(g)

----------------------------------------------------------------------------
\* Configuration (config.RefineryConfig) and overrides (config.PackageOverride).

Config(m, base, cap, auto, allow, dry) ==
    [max_attempts |-> m, attempt_backoff_base |-> base, attempt_backoff_max |-> cap,
     auto_apply_suggestions |-> auto, allow_system_recipes |-> allow,
     dry_run_recipes |-> dry]

Override(present, pkgs, recipe) ==
    [present |-> present, system_packages |-> pkgs, system_recipe |-> recipe]

NoOverride == Override(FALSE, <<>>, <<>>)

OverrideNames == {"dep", "Dep", "lib"}

\* WheelBuilder._override_for: the name under which the job's override is
\* found (overrides.get(job.name) or overrides.get(job.name.lower())), "" if none.
_override_for(job, ovs) ==
    IF ovs[job.name].present THEN job.name
    ELSE IF ovs[Lower(job.name)].present THEN Lower(job.name)
    ELSE ""

----------------------------------------------------------------------------
\* The event log (history.BuildHistory).

\* The arguments of one record_event call.  `variant` is metadata["variant"]
\* ("": the metadata has none), `duration` is metadata["duration_seconds"]
\* (-1: the metadata has none); `mentions_variant` says that the JSON text of
\* the metadata holds the letters "variant" (in a key or in a value); `id` is
\* the row id, 0 before the row is inserted.
Event(job, status, attempt, variant, hint) ==
    [id |-> 0, name |-> job.name, version |-> job.version, status |-> status,
     attempt |-> attempt, variant |-> variant, hint |-> hint, duration |-> -1,
     mentions_variant |-> variant # ""]

\* None, where a query returns an event.
NoEvent == Event([name |-> "", version |-> ""], "", 0, "", "")

\* The id an AUTOINCREMENT column gives the next row: one more than the
\* largest id of the table.
NextId(log) ==
    IF log = <<>> THEN 1
    ELSE 1 + (CHOOSE m \in { log[k].id : k \in 1..Len(log) } :
                 \A k \in 1..Len(log) : log[k].id <= m)

\* A record_event that keeps one row per (name, version, status): it rewrites
\* the row it finds.
record_event_upsert(log, e) ==
    LET same == { k \in 1..Len(log) : /\ log[k].name = e.name
                                      /\ log[k].version = e.version
                                      /\ log[k].status = e.status }
    IN IF same = {} THEN Append(log, [e EXCEPT !.id = NextId(log)])
       ELSE [k \in 1..Len(log) |-> IF k \in same THEN [e EXCEPT !.id = log[k].id] ELSE log[k]]

\* BuildHistory.record_event: one INSERT, the row gets the next id.
record_event(log, e) == Append(log, [e EXCEPT !.id = NextId(log)])

\* record_event called once for each element of a sequence, in order.
RECURSIVE RecordAll(_, _)
RecordAll(log, es) ==
    IF es = <<>> THEN log ELSE RecordAll(record_event(log, Head(es)), Tail(es))

\* The group a row falls in: json_extract(metadata_json, '$.variant'), and
\* "unknown" when that is NULL (`row[0] or "unknown"`).
VariantGroup(row) == IF row.variant # "" THEN row.variant ELSE "unknown"

\* BuildHistory.variant_success_rate, the entry of variant v: over the rows of
\* the name whose metadata text holds "variant" (LIKE '%variant%'), grouped by
\* VariantGroup, <<built events, events>>; <<0, 0>> when the result has no
\* key v.
variant_success_rate(log, name, v) ==
    LET rows == { i \in 1..Len(log) : /\ log[i].name = name
                                      /\ log[i].mentions_variant
                                      /\ VariantGroup(log[i]) = v }
    IN <<Cardinality({ i \in rows : log[i].status = "built" }), Cardinality(rows)>>

\* BuildHistory.last_event(name, version): the row of the largest id among the
\* rows of the name, and of the version when `version` is not empty; NoEvent
\* when there is none.
last_event(log, name, version) ==
    LET rows == { i \in 1..Len(log) : /\ log[i].name = name
                                      /\ version # "" => log[i].version = version }
    IN IF rows = {} THEN NoEvent
       ELSE log[CHOOSE i \in rows : \A k \in rows : log[k].id <= log[i].id]

\* The statuses record_event is called with.
EventStatuses ==
    {"reused", "built", "cached", "failed", "failed_attempt", "missing",
     "skipped_known_failure", "system_recipe_ran", "system_recipe_failed",
     "planned_dependency_expansion", "requeued_parent"}

\* BuildHistory.package_summary(name): the count of each status among the
\* rows of the name (0: the status is no key of status_counts), the row of the
\* largest id, and AVG over the rows that hold a duration_seconds, kept as
\* <<sum, count>> (<<0, 0>>: avg_duration is None).
package_summary(log, name) ==
    LET rows == { i \in 1..Len(log) : log[i].name = name }
        timed == { i \in rows : log[i].duration # -1 }
        RECURSIVE Sum(_)
        Sum(S) == IF S = {} THEN 0
                  ELSE LET i == CHOOSE i \in S : TRUE
                       IN log[i].duration + Sum(S \ {i})
    IN [status_counts |-> [st \in EventStatuses |->
                              Cardinality({ i \in rows : log[i].status = st })],
        latest |-> IF rows = {} THEN NoEvent
                   ELSE log[CHOOSE i \in rows : \A k \in rows : log[k].id <= log[i].id],
        avg_duration |-> <<Sum(timed), Cardinality(timed)>>]

BaseVariants == <<"default", "no_isolation", "arch_tweak">>

\* rates.get(a, 0) > rates.get(b, 0), on <<built, total>> pairs.
RateGreater(ra, rb) ==
    IF ra[2] = 0 THEN FALSE
    ELSE IF rb[2] = 0 THEN ra[1] > 0
    ELSE ra[1] * rb[2] > rb[1] * ra[2]

\* A _variants that never ranks: the base list as it is.
_variants_unranked(log, name) == BaseVariants

\* WheelBuilder._variants: the base list, stably sorted by descending rate
\* when the package has any rate recorded.
_variants(log, name) ==
    LET rate(v) == variant_success_rate(log, name, v)
        \* position of base[i] after a stable sort by descending rate
        pos(i) == 1 + Cardinality({ j \in 1..3 :
                        \/ RateGreater(rate(BaseVariants[j]), rate(BaseVariants[i]))
                        \/ /\ j < i
                           /\ ~RateGreater(rate(BaseVariants[i]), rate(BaseVariants[j])) })
    IN [k \in 1..3 |-> BaseVariants[CHOOSE i \in 1..3 : pos(i) = k]]

----------------------------------------------------------------------------
\* The frame of one build_job call (its local variables and its position).

\* The thread of the run driver and the threads of its worker pool.
Threads == {"main", "w1", "w2"}

IdleFrame ==
    [pc |-> "idle", job |-> NoJob, attempt |-> 0, step |-> 0, recipe_ran |-> FALSE,
     override |-> "", variants |-> BaseVariants, last_error |-> FALSE,
     last_hint_steps |-> <<>>, result |-> "none", error |-> "", sleeps |-> <<>>,
     log |-> <<>>, ev_start |-> 0, count_at_entry |-> 0, performed_at_entry |-> 0, cache_at_entry |-> {},
     produced |-> NoFile, exc |-> "", found |-> NoFile]

Finished(f) == f.pc \in {"returned", "raised"}

\* attempts = max(1, self.config.max_attempts)        (builder.py 138)
LoopAttemptsOffByOne(max_attempts) == Max(1, max_attempts) + 1
LoopAttempts(max_attempts) == Max(1, max_attempts)

\* delay = min(attempt_backoff_max, attempt_backoff_base * 2 ** (attempt - 1))
BackoffDelayUncapped(c, attempt) == c.attempt_backoff_base * Pow2(attempt - 1)
BackoffDelay(c, attempt) ==
    Min(c.attempt_backoff_max, c.attempt_backoff_base * Pow2(attempt - 1))

\* The hint of the BuildAttemptError raised for a timeout (builder.py 403).
TimeoutHint == "Increase attempt timeout or check hanging build step"

----------------------------------------------------------------------------
\* Versions, requirements and scanned wheels (packaging, scanner.py).

\* packaging.version.Version as its comparison key: "1.0" and "1.0.0" are the
\* same version; 0 stands for a string Version() rejects.
VersionKey(v) ==
    CASE v \in {"1.0", "1.0.0"} -> 1
      [] v = "2.0" -> 2
      [] OTHER -> 0

\* set.add / set.update on a set of Version objects, kept as their strings:
\* an element equal to one already present is not added.
AddVersion(S, v) ==
    IF \E u \in S : VersionKey(u) = VersionKey(v) THEN S ELSE S \cup {v}

\* A packaging Requirement with at most one specifier clause.
Req(n, op, v) == [name |-> n, op |-> op, version |-> v]

\* SpecifierSet.contains(version, prereleases=True) for one clause: "=="
\* compares versions (with "1.*" a prefix match), "===" compares strings.
SpecifierContains(req, v) ==
    CASE req.op = "==" -> IF req.version = "1.*" THEN VersionKey(v) = 1
                          ELSE VersionKey(v) = VersionKey(req.version)
      [] req.op = "===" -> v = req.version
      [] req.op = ">=" -> VersionKey(v) >= VersionKey(req.version)
      [] OTHER -> TRUE

\* scanner.WheelInfo as read_wheel_metadata builds it: the canonical name and
\* the version of the file name, its tags, its Requires-Dist list.  `rank` is
\* the place of the file in sorted(directory.glob("*.whl")).
WheelInfo(n, v, tags, reqs, rank) ==
    [name |-> n, version |-> v, tags |-> tags, requires_dist |-> reqs, rank |-> rank]

Tag(i, p) == [interpreter |-> i, platform |-> p]

\* WheelInfo.is_pure_python
is_pure_python(wheel) == \E tag \in wheel.tags : tag.platform = "any"

\* The tag test written in WheelInfo.supports (the one of _find_cached).
SupportsTarget(wheel) ==
    \E tag \in wheel.tags : TagSatisfies(tag, PythonTag, PlatformTag)

\* WheelInfo.supports: its loop reads tag.python, which packaging.tags.Tag
\* does not have (the attribute is `interpreter`), so a wheel with a tag
\* raises AttributeError; with no tag the loop is empty and the result False.
supports(wheel) == IF wheel.tags # {} THEN "AttributeError" ELSE "False"

\* The requirements the wheels of the model declare.
Requirements ==
    { Req("dep", "==", "1.0.0"), Req("Dep", "==", "1.0"), Req("dep", "===", "1.0"),
      Req("dep", "===", "1.0.0"), Req("lib", ">=", "1.0"), Req("purepkg", ">=", "1.0"),
      Req("dep", "==", "1.*"), Req("purepkg", "==", "1.0.0"),
      Req("purepkg", "===", "1.0") }

RECURSIVE SeqsUpTo(_, _)
SeqsUpTo(S, n) ==
    IF n = 0 THEN {<<>>}
    ELSE LET shorter == SeqsUpTo(S, n - 1)
         IN shorter \cup { Append(q, x) : q \in { t \in shorter : Len(t) = n - 1 }, x \in S }

\* The input directories of the model, as the files they can hold:
\* a pure wheel "app" with any short requirement list, the two wheels of
\* test_scan_and_resolve_reuse_vs_build, and a wheel built for the target.
AppWheels ==
    { WheelInfo("app", "1.0", {Tag("py3", "any")}, reqs, 1) : reqs \in SeqsUpTo(Requirements, MaxReqs) }
NativeWheel ==
    WheelInfo("nativepkg", "1.0.0", {Tag("cp311", "manylinux2014_x86_64")},
              <<Req("dep", "==", "1.0.0")>>, 2)
PureWheels ==
    { WheelInfo("purepkg", "1.0.0", {Tag("py3", "any")}, reqs, 4) :
        reqs \in { <<>>, <<Req("dep", "==", "1.0.0")>>,
                   <<Req("dep", "===", "1.0.0"), Req("lib", ">=", "1.0")>> } }
TargetWheel ==
    WheelInfo("s390pkg", "2.0", {Tag("cp311", "manylinux2014_s390x")}, <<>>, 5)
\* purepkg-1.0.0-cp311-cp311-manylinux2014_x86_64.whl: the same name and
\* version as the universal wheel, built for another platform.
TwinWheel ==
    WheelInfo("purepkg", "1.0.0", {Tag("cp311", "manylinux2014_x86_64")}, <<>>, 3)

\* A file alpha-not_a_version-py3-none-any.whl: its version is no version.
UnparsableWheel ==
    WheelInfo("alpha", "not_a_version", {Tag("py3", "any")}, <<Req("lib", ">=", "1.0")>>, 0)

ScannedDirectories ==
    { a \cup n \cup p \cup t \cup u :
        u \in { {}, {UnparsableWheel} },
        a \in {{}} \cup { {w} : w \in AppWheels },
        n \in { {}, {NativeWheel}, {TwinWheel} },
        p \in {{}} \cup { {w} : w \in PureWheels },
        t \in { {}, {TargetWheel} } }

\* scanner.read_wheel_metadata returns a WheelInfo: parse_wheel_filename
\* accepts the version of the file name (it raises otherwise).
read_wheel_metadata_returns(file) == VersionKey(file.version) # 0

\* scan_wheels: the wheels of a directory in sorted file order; a file whose
\* read raises is logged and left out (scanner.py 89-92).
RECURSIVE scan_wheels(_)
scan_wheels(dir) ==
    IF dir = {} THEN <<>>
    ELSE LET first == CHOOSE w \in dir : \A x \in dir : w.rank <= x.rank
         IN IF read_wheel_metadata_returns(first)
            THEN <<first>> \o scan_wheels(dir \ {first})
            ELSE scan_wheels(dir \ {first})

\* The package names the resolver's maps are indexed by (lowercased).
PkgNames == {"app", "nativepkg", "purepkg", "s390pkg", "dep", "lib"}

\* IndexClient.versions(project): what `pip index versions` reports.
IndexAbsent == [present |-> FALSE, versions |-> [n \in PkgNames |-> {}]]
IndexEmpty == [present |-> TRUE, versions |-> [n \in PkgNames |-> {}]]
IndexStocked ==
    [present |-> TRUE,
     versions |-> [n \in PkgNames |->
                     CASE n = "dep" -> {"1.0.0", "2.0"}
                       [] n = "lib" -> {"2.0"}
                       [] OTHER -> {}]]

\* The parts of the configuration build_plan reads, with the index client.
ResolverSettings ==
    { [index |-> IndexAbsent, eager |-> FALSE, fallback_latest |-> FALSE] }
    \cup { [index |-> ix, eager |-> e, fallback_latest |-> fb] :
             ix \in {IndexEmpty, IndexStocked},
             e \in BOOLEAN, fb \in {FALSE} }
    \cup { [index |-> ix, eager |-> FALSE, fallback_latest |-> TRUE] :
             ix \in {IndexEmpty, IndexStocked} }

----------------------------------------------------------------------------
\* WheelBuilder._attempt_build, as the exception it ends with.  `kind` is what
\* the external commands of the attempt do; `produced` is the wheel a build
\* that exits 0 writes to the cache (NoFile: none).
\*   - a command that exits non-zero: _run_capture calls self._hint_from_logs,
\*     which WheelBuilder does not define (it is nested in _extract_sdist,
\*     builder.py 608): AttributeError, before BuildAttemptError is built;
\*   - a command that times out: BuildAttemptError with the timeout hint;
\*   - no sdist downloaded, or no matching wheel after the build: RuntimeError;
\*   - a matching wheel found: it is copied out, the attempt counter is set,
\*     and building the metadata of the history record reads job.children,
\*     which models.BuildJob does not define: AttributeError.
AttemptKinds ==
    {"download_fail", "download_timeout", "no_sdist", "build_fail",
     "build_timeout", "build_exit0"}

\* An _attempt_build that takes the wheel the build wrote for the wheel of the
\* job without looking it up.
_attempt_build_takes_output(job, kind, produced, cache) ==
    LET cache2 == IF kind = "build_exit0" /\ produced # NoFile
                  THEN cache \cup {produced} ELSE cache
        built == IF kind = "build_exit0" THEN produced ELSE NoFile
    IN [exc   |-> CASE kind \in {"download_fail", "build_fail"} -> "AttributeError"
                    [] kind \in {"download_timeout", "build_timeout"} -> "BuildAttemptError"
                    [] kind = "no_sdist" -> "RuntimeError"
                    [] OTHER -> IF built = NoFile THEN "RuntimeError" ELSE "AttributeError",
        hint  |-> IF kind \in {"download_timeout", "build_timeout"} THEN TimeoutHint ELSE "",
        cache |-> cache2,
        found |-> built]

_attempt_build(job, kind, produced, cache) ==
    LET cache2 == IF kind = "build_exit0" /\ produced # NoFile
                  THEN cache \cup {produced} ELSE cache
        built == IF kind = "build_exit0" THEN _find_cached(job, cache2) ELSE NoFile
    IN [exc   |-> CASE kind \in {"download_fail", "build_fail"} -> "AttributeError"
                    [] kind \in {"download_timeout", "build_timeout"} -> "BuildAttemptError"
                    [] kind = "no_sdist" -> "RuntimeError"
                    [] OTHER -> IF built = NoFile THEN "RuntimeError" ELSE "AttributeError",
        hint  |-> IF kind \in {"download_timeout", "build_timeout"} THEN TimeoutHint ELSE "",
        cache |-> cache2,
        found |-> built]

\* "Suggest install:" in hint, for the hints of the model.  The hints
\* _hint_from_logs writes start with "Suggested packages:" or "Missing".
HasSuggestInstall(hint) ==
    hint \in {"Suggest install: libffi-dev", "Suggest install:  zlib1g-dev ",
              "Hint: Suggest install: libffi-dev", "Suggest install:"}

\* hint.split("Suggest install:")[-1].strip() for the hints of the model.
SuggestInstall(hint) ==
    CASE hint = "Suggest install: libffi-dev" -> "libffi-dev"
      [] hint = "Suggest install:  zlib1g-dev " -> "zlib1g-dev"
      [] hint = "Hint: Suggest install: libffi-dev" -> "libffi-dev"
      [] OTHER -> ""

\* An _apply_suggestion that appends the suggestion without looking for it.
_apply_suggestion_always_appends(job, hint, ovs) ==
    LET created == IF _override_for(job, ovs) = ""
                   THEN [ovs EXCEPT ![job.name] = Override(TRUE, <<>>, <<>>)]
                   ELSE ovs
        n == _override_for(job, created)
        suggestion == SuggestInstall(hint)
    IN IF HasSuggestInstall(hint)
       THEN [created EXCEPT ![n].system_packages = Append(@, suggestion)]
       ELSE created

\* WheelBuilder._apply_suggestion up to its call of self._recipe_steps_from_hint
\* (not an attribute of WheelBuilder: AttributeError, line 584): the override
\* is created under job.name when the job has none, and the text after
\* "Suggest install:" is appended to its system packages when it is not there.
_apply_suggestion(job, hint, ovs) ==
    LET created == IF _override_for(job, ovs) = ""
                   THEN [ovs EXCEPT ![job.name] = Override(TRUE, <<>>, <<>>)]
                   ELSE ovs
        n == _override_for(job, created)
        suggestion == SuggestInstall(hint)
        pkgs == created[n].system_packages
    IN IF HasSuggestInstall(hint) /\ ~(\E k \in 1..Len(pkgs) : pkgs[k] = suggestion)
       THEN [created EXCEPT ![n].system_packages = Append(@, suggestion)]
       ELSE created

Raise(f, exc) == [f EXCEPT !.pc = "raised", !.error = exc]

----------------------------------------------------------------------------
\* build_job, lines 116-123, once ensure_ready has returned: the
\* attempt-counter guard and the recipe decision.
_after_ready(job) ==
    LET key == KeyOf(job)
        attempts == attempt_counts[key]
        okey == _override_for(job, overrides)
        base == [IdleFrame EXCEPT !.job = job, !.override = okey,
                                  !.ev_start = Len(events),
                                  !.count_at_entry = attempts,
                                  !.performed_at_entry = performed[key],
                                  !.cache_at_entry = cache_wheels]
        runs_recipe == /\ okey # ""
                       /\ overrides[okey].system_recipe # <<>>
                       /\ cfg.allow_system_recipes
                       /\ ~cfg.dry_run_recipes
    IN IF attempts >= cfg.max_attempts
       THEN Raise(base, "RuntimeError:Exceeded")
       ELSE [base EXCEPT !.pc = IF runs_recipe THEN "recipe" ELSE "probe",
                         !.step = 1]

\* build_job, lines 114-123.  Line 115 is self.ensure_ready(): it returns at
\* once when _ensure_ready_once is set (builder.py 90-91); otherwise the
\* thread runs `python -m venv` and `pip install --upgrade pip build` and
\* waits for them.
Enter(w, job) ==
    LET key == KeyOf(job)
    IN /\ frame' = [frame EXCEPT ![w] =
                      IF ensure_ready_once
                      THEN _after_ready(job)
                      ELSE [IdleFrame EXCEPT !.job = job, !.pc = "ensure_ready",
                                             !.ev_start = Len(events),
                                             !.count_at_entry = attempt_counts[key],
                                             !.performed_at_entry = performed[key],
                                             !.cache_at_entry = cache_wheels]]
       /\ terminal' = IF ensure_ready_once /\ attempt_counts[key] >= cfg.max_attempts
                      THEN terminal \cup {key} ELSE terminal
       /\ UNCHANGED <<cfg, overrides, cache_wheels, output_dir, attempt_counts,
                      completed, events, performed, ensure_ready_once, resolver, sched>>

\* ensure_ready, lines 93-112, in build_job: the commands exit 0, the flag is
\* set and build_job goes on with line 116.
EnsureReadyOk(w) ==
    LET f == frame[w]
        key == KeyOf(f.job)
    IN /\ f.pc = "ensure_ready"
       /\ ensure_ready_once' = TRUE
       /\ frame' = [frame EXCEPT ![w] =
                      [_after_ready(f.job) EXCEPT !.ev_start = f.ev_start,
                                                  !.performed_at_entry = f.performed_at_entry,
                                                  !.cache_at_entry = f.cache_at_entry]]
       /\ terminal' = IF attempt_counts[key] >= cfg.max_attempts
                      THEN terminal \cup {key} ELSE terminal
       /\ UNCHANGED <<cfg, overrides, cache_wheels, output_dir, attempt_counts,
                      completed, events, performed, calls, run,
                      resolver, sched, worker>>

\* ensure_ready in build_job: a command exits non-zero; _run has check=True
\* (builder.py 361-363), so CalledProcessError leaves build_job at line 115
\* with the flag unset.
EnsureReadyFails(w) ==
    LET f == frame[w]
    IN /\ f.pc = "ensure_ready"
       /\ frame' = [frame EXCEPT ![w] = Raise(f, "CalledProcessError:ensure_ready")]
       /\ UNCHANGED <<cfg, overrides, cache_wheels, output_dir, attempt_counts,
                      completed, events, performed, terminal, calls, ensure_ready_once, run,
                      resolver, sched, worker>>

\* _run_system_recipe: one step that exits 0 (builder.py 427-447).
RecipeStepOk(w) ==
    LET f == frame[w]
        recipe == overrides[f.override].system_recipe
        last == f.step >= Len(recipe)
    IN /\ f.pc = "recipe"
       /\ events' = record_event(events, Event(f.job, "system_recipe_ran", 0, "", ""))
       /\ frame' = [frame EXCEPT ![w] =
                      [f EXCEPT !.step = f.step + 1,
                                !.recipe_ran = last,
                                !.pc = IF last THEN "probe" ELSE "recipe"]]
       /\ UNCHANGED <<cfg, overrides, cache_wheels, output_dir, attempt_counts,
                      completed, performed, terminal, calls, ensure_ready_once, run,
                      resolver, sched, worker>>

\* _run_system_recipe: a step that exits non-zero (builder.py 448-463): the
\* failure is recorded and CalledProcessError leaves build_job.
RecipeStepFails(w) ==
    LET f == frame[w]
    IN /\ f.pc = "recipe"
       /\ events' = record_event(events, Event(f.job, "system_recipe_failed", 0, "", ""))
       /\ frame' = [frame EXCEPT ![w] = Raise(f, "CalledProcessError")]
       /\ terminal' = terminal \cup {KeyOf(f.job)}
       /\ UNCHANGED <<cfg, overrides, cache_wheels, output_dir, attempt_counts,
                      completed, performed, calls, ensure_ready_once, run,
                      resolver, sched, worker>>

\* build_job, lines 124-126: the cache holds a matching wheel, and it is
\* copied to the output directory.
ReturnCached(w) ==
    LET f == frame[w]
        cached == _find_cached(f.job, cache_wheels)
    IN /\ f.pc = "probe"
       /\ cached # NoFile
       /\ output_dir' = output_dir \cup {cached}
       /\ frame' = [frame EXCEPT ![w] = [f EXCEPT !.pc = "cached", !.found = cached]]
       /\ UNCHANGED <<cfg, overrides, cache_wheels, attempt_counts, completed, events,
                      performed, terminal, calls, ensure_ready_once, run,
                      resolver, sched, worker>>

\* build_job, lines 127-135: _record_history takes the lock of the history
\* (history.py 76), inserts the 'cached' row, and build_job returns.
RecordCached(w) ==
    LET f == frame[w]
    IN /\ f.pc = "cached"
       /\ events' = record_event(events, Event(f.job, "cached", 0, "", ""))
       /\ frame' = [frame EXCEPT ![w] = [f EXCEPT !.pc = "returned", !.result = "cached"]]
       /\ UNCHANGED <<cfg, overrides, cache_wheels, output_dir, attempt_counts, completed,
                      performed, terminal, calls, ensure_ready_once, run,
                      resolver, sched, worker>>

\* build_job, lines 124-140: no matching wheel; the attempt loop starts.
CacheMiss(w) ==
    LET f == frame[w]
    IN /\ f.pc = "probe"
       /\ _find_cached(f.job, cache_wheels) = NoFile
       /\ frame' = [frame EXCEPT ![w] =
                      [f EXCEPT !.pc = "attempt", !.attempt = 1,
                                !.variants = _variants(events, f.job.name)]]
       /\ UNCHANGED <<cfg, overrides, cache_wheels, output_dir, attempt_counts,
                      completed, events, performed, terminal, calls, ensure_ready_once, run,
                      resolver, sched, worker>>

\* A builder that marks the job completed after every attempt.
_completed_after_any_attempt(done, job, r) == done \cup {KeyOf(job)}

\* The end of _attempt_build (builder.py 322-351): the built event, whose
\* metadata reads job.children, is recorded and then the key is added to
\* self._completed; line 350 is reached only when nothing before it raised.
_completed_after(done, job, r) ==
    IF r.exc = "" THEN done \cup {KeyOf(job)} ELSE done

\* One iteration of the attempt loop (builder.py 141-196) whose commands write
\* no wheel: _attempt_build raises and the handler runs.  The iteration reads
\* and writes nothing other threads share before the handler.
AttemptStep(w, kind, produced) ==
    LET f == frame[w]
        job == f.job
        key == KeyOf(job)
        attempts == LoopAttempts(cfg.max_attempts)
        attempt == f.attempt
        variant == f.variants[Min(attempt, Len(f.variants))]
        r == _attempt_build(job, kind, produced, cache_wheels)
        hinted == r.exc = "BuildAttemptError" /\ r.hint # ""
        entry == [attempt |-> attempt, hint |-> r.hint, recorded |-> ~hinted,
                  found |-> r.found]
    IN /\ f.pc = "attempt"
       /\ kind # "build_exit0"
       /\ performed' = [performed EXCEPT ![key] = @ + 1]
       /\ cache_wheels' = r.cache
       /\ output_dir' = IF r.found # NoFile THEN output_dir \cup {r.found} ELSE output_dir
       /\ attempt_counts' = IF r.found # NoFile
                            THEN [attempt_counts EXCEPT ![key] = attempt]
                            ELSE attempt_counts
       /\ completed' = _completed_after(completed, job, r)
       /\ IF hinted
          THEN \* lines 158-161: self._apply_suggestion / self._recipe_steps_from_hint
               \* raise AttributeError inside the handler; it leaves build_job.
               /\ overrides' = IF cfg.auto_apply_suggestions
                               THEN _apply_suggestion(job, r.hint, overrides) ELSE overrides
               /\ events' = events
               /\ frame' = [frame EXCEPT ![w] =
                              Raise([f EXCEPT !.last_error = TRUE,
                                              !.log = Append(f.log, entry)],
                                    "AttributeError")]
               /\ terminal' = terminal \cup {key}
          ELSE \* lines 162-196: the failure is recorded, then the backoff sleep.
               /\ events' = record_event(events,
                                Event(job, "failed_attempt", attempt, variant, ""))
               /\ frame' = [frame EXCEPT ![w] =
                              [f EXCEPT !.last_error = TRUE,
                                        !.log = Append(f.log, entry),
                                        !.sleeps = IF attempt < attempts
                                                   THEN Append(f.sleeps, BackoffDelay(cfg, attempt))
                                                   ELSE f.sleeps,
                                        !.attempt = attempt + 1,
                                        !.pc = IF attempt < attempts
                                               THEN "attempt" ELSE "after_loop"]]
               /\ UNCHANGED <<overrides, terminal>>
       /\ UNCHANGED <<cfg, calls, ensure_ready_once, run,
                      resolver, sched, worker>>

ProducedChoices(job, kind) ==
    IF kind = "build_exit0" THEN ProducedBy(job) \cup {NoFile} ELSE {NoFile}

\* An attempt that fails without a hint: the download or the build exits
\* non-zero, or no sdist was downloaded.
AttemptFails(w) ==
    \E kind \in {"download_fail", "no_sdist", "build_fail"} :
        AttemptStep(w, kind, NoFile)

\* An attempt whose download or build step times out.
AttemptTimesOut(w) ==
    \E kind \in {"download_timeout", "build_timeout"} :
        AttemptStep(w, kind, NoFile)

\* _attempt_build, lines 218-315, with a build that exits 0: while it runs,
\* the build command writes its wheel (or none) to the cache directory
\* (--outdir, line 300); the thread waits for it.
BuildCommandRuns(w) ==
    LET f == frame[w]
        key == KeyOf(f.job)
    IN /\ f.pc = "attempt"
       /\ \E produced \in ProducedChoices(f.job, "build_exit0") :
             /\ cache_wheels' = IF produced # NoFile
                                THEN cache_wheels \cup {produced} ELSE cache_wheels
             /\ frame' = [frame EXCEPT ![w] =
                            [f EXCEPT !.pc = "collect", !.produced = produced]]
       /\ performed' = [performed EXCEPT ![key] = @ + 1]
       /\ UNCHANGED <<cfg, overrides, output_dir, attempt_counts, completed, events,
                      terminal, calls, ensure_ready_once, run,
                      resolver, sched, worker>>

\* _attempt_build, lines 317-349, after the build command returned: a
\* matching wheel is in the cache; it is copied out, the attempt counter is
\* set (line 321), and the exception of line 347 goes to the handler.
AttemptBuildsWheel(w) ==
    LET f == frame[w]
        key == KeyOf(f.job)
        r == _attempt_build(f.job, "build_exit0", f.produced, cache_wheels)
    IN /\ f.pc = "collect"
       /\ r.found # NoFile
       /\ output_dir' = output_dir \cup {r.found}
       /\ attempt_counts' = [attempt_counts EXCEPT ![key] = f.attempt]
       /\ completed' = _completed_after(completed, f.job, r)
       /\ frame' = [frame EXCEPT ![w] =
                      [f EXCEPT !.pc = "handler", !.exc = r.exc, !.found = r.found]]
       /\ UNCHANGED <<cfg, overrides, cache_wheels, events, performed,
                      terminal, calls, ensure_ready_once, run,
                      resolver, sched, worker>>

\* _attempt_build, lines 317-319: no matching wheel is in the cache after the
\* build; the RuntimeError goes to the handler.
AttemptFindsNoWheel(w) ==
    LET f == frame[w]
        r == _attempt_build(f.job, "build_exit0", f.produced, cache_wheels)
    IN /\ f.pc = "collect"
       /\ r.found = NoFile
       /\ completed' = _completed_after(completed, f.job, r)
       /\ frame' = [frame EXCEPT ![w] =
                      [f EXCEPT !.pc = "handler", !.exc = r.exc, !.found = NoFile]]
       /\ UNCHANGED <<cfg, overrides, cache_wheels, output_dir, attempt_counts, events,
                      performed, terminal, calls, ensure_ready_once, run,
                      resolver, sched, worker>>

\* The handler of build_job (lines 146-196) for what an attempt with a build
\* that exited 0 raised: record_event takes the lock of the history and
\* inserts the failed_attempt row; then the backoff sleep.
RecordFailedAttempt(w) ==
    LET f == frame[w]
        attempts == LoopAttempts(cfg.max_attempts)
        attempt == f.attempt
        variant == f.variants[Min(attempt, Len(f.variants))]
        entry == [attempt |-> attempt, hint |-> "", recorded |-> TRUE,
                  found |-> f.found]
    IN /\ f.pc = "handler"
       /\ events' = record_event(events,
                        Event(f.job, "failed_attempt", attempt, variant, ""))
       /\ frame' = [frame EXCEPT ![w] =
                      [f EXCEPT !.last_error = TRUE,
                                !.log = Append(f.log, entry),
                                !.sleeps = IF attempt < attempts
                                           THEN Append(f.sleeps, BackoffDelay(cfg, attempt))
                                           ELSE f.sleeps,
                                !.attempt = attempt + 1,
                                !.pc = IF attempt < attempts
                                       THEN "attempt" ELSE "after_loop"]]
       /\ UNCHANGED <<cfg, overrides, cache_wheels, output_dir, attempt_counts,
                      completed, performed, terminal, calls, ensure_ready_once, run,
                      resolver, sched, worker>>

\* _recipe_steps_from_hint is never reached as a method (see AttemptStep), so
\* last_hint_steps keeps its initial value [].  The steps the nested function
\* would give for a hint: only a "Suggested packages:" hint has any.
_recipe_steps_from_hint(hint) ==
    CASE hint = "Suggested packages: dnf: zlib-devel" -> <<"dnf install -y zlib-devel">>
      [] hint = "Suggested packages: dnf: openssl-devel" -> <<"dnf install -y openssl-devel">>
      [] OTHER -> <<>>

\* build_job, lines 197-216, after the loop: the hint retry when
\* last_hint_steps is not empty, then RuntimeError("Exhausted ...").
AfterLoop(w) ==
    LET f == frame[w]
        job == f.job
        key == KeyOf(job)
    IN /\ f.pc = "after_loop"
       /\ IF f.last_error /\ f.last_hint_steps # <<>>
          THEN \E kind \in AttemptKinds : \E produced \in ProducedChoices(job, kind) :
                 LET r == _attempt_build(job, kind, produced, cache_wheels)
                     attempts == LoopAttempts(cfg.max_attempts)
                 IN /\ performed' = [performed EXCEPT ![key] = @ + 1]
                    /\ cache_wheels' = r.cache
                    /\ output_dir' = IF r.found # NoFile
                                     THEN output_dir \cup {r.found} ELSE output_dir
                    /\ attempt_counts' = IF r.found # NoFile
                                         THEN [attempt_counts EXCEPT ![key] = attempts + 1]
                                         ELSE attempt_counts
                    /\ completed' = _completed_after(completed, job, r)
                    /\ frame' = [frame EXCEPT ![w] =
                                   Raise([f EXCEPT !.attempt = attempts + 2],
                                         "RuntimeError:Exhausted")]
          ELSE /\ frame' = [frame EXCEPT ![w] = Raise(f, "RuntimeError:Exhausted")]
               /\ UNCHANGED <<performed, cache_wheels, output_dir, attempt_counts,
                              completed>>
       /\ terminal' = terminal \cup {key}
       /\ UNCHANGED <<cfg, overrides, events, calls, ensure_ready_once, run,
                      resolver, sched, worker>>

----------------------------------------------------------------------------
\* The Resolver: build_plan (resolver.py).

Plan(reusable, to_build, missing, expansions) ==
    [reusable |-> reusable, to_build |-> to_build,
     missing_requirements |-> missing, dependency_expansions |-> expansions]

NoVersions == [n \in PkgNames |-> {}]

\* A build_plan call before its first step.
ResolverStart(wheels, settings) ==
    [pc |-> "classify", wheels |-> wheels, settings |-> settings, i |-> 1, j |-> 1,
     plan |-> Plan(<<>>, <<>>, <<>>, <<>>),
     reusable_versions |-> NoVersions, planned_versions |-> NoVersions,
     all_versions |-> NoVersions, error |-> "", deduped |-> 0,
     queried |-> <<>>, dir |-> {}]

\* The value of `resolver` in the specifications that do not run build_plan.
NoResolver == ResolverStart(<<>>, [index |-> IndexAbsent, eager |-> FALSE,
                                   fallback_latest |-> FALSE])

\* A job a test for "already planned" never finds.
_never_planned(name, version, jobs) == FALSE

\* resolver._already_planned_version
_already_planned_version(name, version, jobs) ==
    \E k \in 1..Len(jobs) : Lower(jobs[k].name) = Lower(name) /\ jobs[k].version = version

\* resolver._collect_requirements
RECURSIVE _collect_requirements(_)
_collect_requirements(wheels) ==
    IF wheels = <<>> THEN <<>>
    ELSE Head(wheels).requires_dist \o _collect_requirements(Tail(wheels))

\* resolver._merged_versions
_merged_versions(primary, secondary) ==
    primary \cup { v \in secondary : \A u \in primary : VersionKey(u) # VersionKey(v) }

\* A test that finds no requirement satisfied.
_satisfies_never(req, versions) == FALSE

\* resolver._satisfies
_satisfies(req, versions) ==
    IF versions = {} THEN FALSE
    ELSE IF req.op = "" THEN TRUE
    ELSE \E v \in versions : SpecifierContains(req, v)

\* resolver._best_candidate: the greatest version the specifier admits, "" if none.
_best_candidate(req, versions) ==
    LET ok == { v \in versions : req.op = "" \/ SpecifierContains(req, v) }
    IN IF ok = {} THEN ""
       ELSE CHOOSE v \in ok : \A u \in ok : VersionKey(u) <= VersionKey(v)

\* resolver._pinned_version: the version of a lone == or === clause, "" if none.
_pinned_version(req) ==
    IF req.op \in {"==", "==="} /\ req.version # "" THEN req.version ELSE ""

\* Phase 1, one iteration of the loop over the wheels (resolver.py 33-57).
ClassifyWheel ==
    LET r == resolver
        wheel == r.wheels[r.i]
        normalized == Lower(wheel.name)
        all2 == [r.all_versions EXCEPT ![normalized] = AddVersion(@, wheel.version)]
        next_pc == IF r.i = Len(r.wheels) THEN "resolve" ELSE "classify"
        job == Job(wheel.name, wheel.version, "incompatible wheel", 0, {})
    IN /\ r.pc = "classify"
       /\ r.i <= Len(r.wheels)
       /\ resolver' =
            IF is_pure_python(wheel)
            THEN [r EXCEPT !.all_versions = all2,
                           !.plan.reusable = Append(@, [name |-> wheel.name,
                                                        version |-> wheel.version]),
                           !.reusable_versions[normalized] = AddVersion(@, wheel.version),
                           !.i = r.i + 1, !.pc = next_pc]
            ELSE IF supports(wheel) = "AttributeError"
            THEN [r EXCEPT !.all_versions = all2, !.pc = "raised",
                           !.error = "AttributeError"]
            ELSE IF _already_planned_version(wheel.name, wheel.version, r.plan.to_build)
            THEN [r EXCEPT !.all_versions = all2,
                           !.planned_versions[normalized] = AddVersion(@, wheel.version),
                           !.deduped = r.deduped + 1,
                           !.i = r.i + 1, !.pc = next_pc]
            ELSE [r EXCEPT !.all_versions = all2,
                           !.plan.to_build = Append(@, job),
                           !.planned_versions[normalized] = AddVersion(@, wheel.version),
                           !.i = r.i + 1, !.pc = next_pc]
       /\ UNCHANGED bvars
       /\ UNCHANGED <<sched, run, worker>>

\* wheels = scan_wheels(input) before build_plan (cli.py 143, worker.py 44).
ScanDirectory ==
    /\ resolver.pc = "scan"
    /\ resolver' = [resolver EXCEPT !.wheels = scan_wheels(resolver.dir),
                                    !.pc = "classify"]
    /\ UNCHANGED bvars
    /\ UNCHANGED <<sched, run, worker>>

\* Phase 1 of a scan that found no wheel.
ClassifyNothing ==
    /\ resolver.pc = "classify"
    /\ resolver.wheels = <<>>
    /\ resolver' = [resolver EXCEPT !.pc = "resolve"]
    /\ UNCHANGED bvars
    /\ UNCHANGED <<sched, run, worker>>

\* A resolver that asks the index whenever it has a client.
_queries_index_always(settings) == settings.index.present

\* The two branches of phase 2 that call index_client.versions (resolver.py
\* 85-90): the eager policy, or else fallback_latest, each with a client.
_queries_index(settings) ==
    IF settings.eager /\ settings.index.present THEN TRUE
    ELSE IF settings.fallback_latest /\ settings.index.present THEN TRUE
    ELSE FALSE

\* Phase 2, one iteration of the loop over the requirements (resolver.py 61-108).
\* `queried` lists the names index_client.versions was called with.
ResolveRequirement ==
    LET r == resolver
        reqs == _collect_requirements(r.wheels)
        req == reqs[r.j]
        normalized == Lower(req.name)
        satisfied_versions == _merged_versions(r.reusable_versions[normalized],
                                               r.planned_versions[normalized])
        pinned == _pinned_version(req)
        remote == _queries_index(r.settings)
        candidate_versions ==
            IF remote
            THEN _merged_versions(r.all_versions[normalized],
                                  r.settings.index.versions[normalized])
            ELSE r.all_versions[normalized]
        candidate == _best_candidate(req, candidate_versions)
        step == [r EXCEPT !.j = r.j + 1]
        asked == IF remote THEN [step EXCEPT !.queried = Append(@, req.name)] ELSE step
    IN /\ r.pc = "resolve"
       /\ r.j <= Len(reqs)
       /\ resolver' =
            IF _satisfies(req, satisfied_versions) THEN step
            ELSE IF pinned # ""
            THEN IF _already_planned_version(normalized, pinned, r.plan.to_build)
                 THEN [step EXCEPT !.deduped = r.deduped + 1]
                 ELSE LET job == Job(req.name, pinned, "missing dependency", 0, {})
                      IN IF VersionKey(pinned) = 0
                         THEN \* _parse_version(pinned) raises ValueError (line 81)
                              [r EXCEPT !.plan.to_build = Append(@, job),
                                        !.pc = "raised", !.error = "ValueError"]
                         ELSE [step EXCEPT !.plan.to_build = Append(@, job),
                                           !.planned_versions[normalized] =
                                               AddVersion(@, pinned)]
            ELSE IF candidate # "" /\
                    ~_already_planned_version(normalized, candidate, r.plan.to_build)
            THEN [asked EXCEPT !.plan.to_build =
                                 Append(@, Job(req.name, candidate,
                                     "missing compatible wheel for requirement", 0, {})),
                               !.planned_versions[normalized] = AddVersion(@, candidate)]
            ELSE [asked EXCEPT !.plan.missing_requirements = Append(@, req)]
       /\ UNCHANGED bvars
       /\ UNCHANGED <<sched, run, worker>>

\* dependency_expander.missing_python_deps, as the set of names (the caller
\* takes them in sorted order).
missing_python_deps(wheels, planned) ==
    LET planned_names == { Lower(planned[k].name) : k \in 1..Len(planned) }
        wheel_names == { Lower(wheels[k].name) : k \in 1..Len(wheels) }
        reqs == _collect_requirements(wheels)
    IN { Lower(reqs[k].name) : k \in 1..Len(reqs) } \ (wheel_names \cup planned_names)

\* sorted() on the package names of the model.
NameRank(n) ==
    CASE n = "app" -> 1 [] n = "dep" -> 2 [] n = "lib" -> 3
      [] n = "nativepkg" -> 4 [] n = "purepkg" -> 5 [] OTHER -> 6

\* The limits build_plan passes to _expand_dependencies (its defaults).
max_dep_depth == 2
max_dep_attempts == 1

\* job.depth < max_dep_depth (resolver.py 129).
WithinDepth(job) == job.depth < max_dep_depth

\* resolver._expand_dependencies with max_dep_attempts = 1: one job, for the
\* first missing name in sorted order.  Only the jobs within the depth budget
\* are passed to missing_python_deps (lines 129-131), so the name of a job
\* beyond the budget counts as missing when a wheel requires it.
_expand_dependencies(plan, wheels, settings) ==
    LET to_consider == SelectSeq(plan.to_build, WithinDepth)
        missing == missing_python_deps(wheels, to_consider)
        first == CHOOSE n \in missing : \A m \in missing : NameRank(n) <= NameRank(m)
        exp == Job(first, "latest", "dependency expansion", 1,
                   { to_consider[k].name : k \in 1..Len(to_consider) })
    IN IF ~settings.index.present \/ max_dep_depth <= 0 \/ to_consider = <<>>
          \/ missing = {} \/ max_dep_attempts < 1
       THEN plan
       ELSE [plan EXCEPT !.dependency_expansions = Append(@, exp),
                         !.to_build = Append(@, exp)]

\* Phase 3 and the return of build_plan (resolver.py 110-113).
ExpandAndReturn ==
    LET r == resolver
    IN /\ r.pc = "resolve"
       /\ r.j > Len(_collect_requirements(r.wheels))
       /\ resolver' = [r EXCEPT !.plan = _expand_dependencies(r.plan, r.wheels, r.settings),
                                !.pc = "returned"]
       /\ UNCHANGED bvars
       /\ UNCHANGED <<sched, run, worker>>

----------------------------------------------------------------------------
\* The Scheduler: schedule_jobs (scheduler.py).

\* A recorded duration sample of the history: (package name, duration_seconds).
Sample(n, d) == [name |-> n, duration |-> d]

\* history.package_summary(name).avg_duration as <<sum, count>> of the
\* samples of the name; count 0 stands for None.
_avg_duration(history, name) ==
    LET rows == { k \in 1..Len(history) : history[k].name = name }
        RECURSIVE Sum(_)
        Sum(R) == IF R = {} THEN 0
                  ELSE LET k == CHOOSE x \in R : TRUE
                       IN history[k].duration + Sum(R \ {k})
    IN <<Sum(rows), Cardinality(rows)>>

\* a < b for two averages, None (count 0) being float("inf").
DurationLess(a, b) ==
    IF a[2] = 0 THEN FALSE
    ELSE IF b[2] = 0 THEN TRUE
    ELSE a[1] * b[2] < b[1] * a[2]

\* Python's tuple order on two priorities <<depth, duration, cpu, mem>>.
PriorityLess(p, q) ==
    \/ p[1] < q[1]
    \/ p[1] = q[1] /\ DurationLess(p[2], q[2])
    \/ p[1] = q[1] /\ ~DurationLess(p[2], q[2]) /\ ~DurationLess(q[2], p[2]) /\ p[3] < q[3]
    \/ p[1] = q[1] /\ ~DurationLess(p[2], q[2]) /\ ~DurationLess(q[2], p[2]) /\ p[3] = q[3]
       /\ p[4] < q[4]

\* list.sort(key=priority): the stable sort, as the permutation it applies.
StableSort(jobs, priority) ==
    LET n == Len(jobs)
        pos(i) == 1 + Cardinality({ j \in 1..n :
                        \/ PriorityLess(priority[j], priority[i])
                        \/ (j < i /\ ~PriorityLess(priority[i], priority[j])) })
    IN [k \in 1..n |-> jobs[CHOOSE i \in 1..n : pos(i) = k]]

\* schedule_jobs.  Under "shortest-first" the loop reads job.resource_cpu and
\* job.resource_mem (lines 23-24), which models.BuildJob does not define: the
\* first job without them raises AttributeError.
schedule_jobs(jobs, history, strategy) ==
    IF strategy = "shortest-first"
    THEN IF \E k \in 1..Len(jobs) : ~({"resource_cpu", "resource_mem"} \subseteq DOMAIN jobs[k])
         THEN [error |-> "AttributeError", jobs |-> <<>>]
         ELSE LET priority == [k \in 1..Len(jobs) |->
                                 <<jobs[k].depth, _avg_duration(history, jobs[k].name),
                                   jobs[k].resource_cpu, jobs[k].resource_mem>>]
              IN [error |-> "", jobs |-> StableSort(jobs, priority)]
    ELSE [error |-> "", jobs |-> jobs]

\* The jobs and the history of test_schedule_shortest_first, and a second
\* depth-0 job.
SchedJobs ==
    { Job("fastpkg", "1.0", "", 0, {}), Job("slowpkg", "1.0", "", 1, {}),
      Job("slowpkg", "1.0", "", 0, {}), Job("fastpkg", "1.0", "", 1, {}) }
SchedHistories ==
    { <<>>, <<Sample("fastpkg", 1), Sample("slowpkg", 10)>>,
      <<Sample("fastpkg", 10), Sample("slowpkg", 1)>>, <<Sample("slowpkg", 10)>> }

\* A caller of schedule_jobs before its first call; `second` holds what a
\* second call with the same arguments ends with.
SchedStart(jobs, history, strategy) ==
    [pc |-> "call", jobs |-> jobs, history |-> history, strategy |-> strategy,
     result |-> <<>>, error |-> "",
     second |-> [pc |-> "none", result |-> <<>>, error |-> ""]]

\* The value of `sched` in the specifications that do not model the call.
NoSched == SchedStart(<<>>, <<>>, "fifo")

\* The call of schedule_jobs.
Schedule ==
    LET r == schedule_jobs(sched.jobs, sched.history, sched.strategy)
    IN /\ sched.pc = "call"
       /\ sched' = [sched EXCEPT !.pc = IF r.error = "" THEN "returned" ELSE "raised",
                                 !.result = r.jobs, !.error = r.error]
       /\ UNCHANGED bvars
       /\ UNCHANGED <<resolver, run, worker>>

\* A second call of schedule_jobs with the same jobs and the same history
\* (schedule_jobs writes to neither).
ScheduleAgain ==
    LET r == schedule_jobs(sched.jobs, sched.history, sched.strategy)
    IN /\ sched.pc \in {"returned", "raised"}
       /\ sched.second.pc = "none"
       /\ sched' = [sched EXCEPT !.second =
                        [pc |-> IF r.error = "" THEN "returned" ELSE "raised",
                         result |-> r.jobs, error |-> r.error]]
       /\ UNCHANGED bvars
       /\ UNCHANGED <<resolver, run, worker>>

----------------------------------------------------------------------------
\* The run driver: main, _run_single_build, _enqueue_parents (cli.py).

\* models.ManifestEntry
Entry(name, version, status) == [name |-> name, version |-> version, status |-> status]

\* str(requirement), the name of the manifest entry of a missing requirement.
ReqStr(req) == req.name \o req.op \o req.version

\* What one build_job call met: the outcome of each attempt, the recipe step
\* it reached, what it raised and what it returned.
Trace(f) == [log |-> f.log, step |-> f.step, error |-> f.error, result |-> f.result]

\* The record of an earlier run of main on the same inputs, kept to compare a
\* later run with it; pc "" when there was none.
NoFirst == [pc |-> "", error |-> "", jobs_to_run |-> <<>>, trace |-> <<>>,
            manifest |-> <<>>, events |-> <<>>]

\* A run of main before its first step after build_plan.  exit_code is -1
\* until main returns; prior_events counts the rows the history held before
\* the run; trace[k] is what the build_job call of the k-th job met; initial
\* keeps the cache directory and the overrides the run started with.
RunStart(plan, args) ==
    [pc |-> "reusables", plan |-> plan, args |-> args, jobs_to_run |-> <<>>,
     next |-> 1, running |-> [t \in Threads |-> 0], outcome |-> <<>>,
     manifest |-> <<>>, exit_code |-> -1, error |-> "", prior_events |-> 0,
     trace |-> <<>>, initial |-> [cache_wheels |-> {}, overrides |-> <<>>],
     first |-> NoFirst]

Args(jobs, schedule, skip) ==
    [jobs |-> jobs, schedule |-> schedule, skip_known_failures |-> skip]

\* The value of `run` in the specifications that do not model main.
NoRun == RunStart(Plan(<<>>, <<>>, <<>>, <<>>), Args(1, "fifo", FALSE))

----------------------------------------------------------------------------
\* The retry queue (queue.py) and its worker (worker.py).

\* queue.RetryRequest.
RetryRequest(package, version, recipes) ==
    [package |-> package, version |-> version, python_tag |-> PythonTag,
     platform_tag |-> PlatformTag, recipes |-> recipes]

\* dataclasses.asdict(request) written by json.dumps and read by json.loads:
\* a JSON object with one member per field; strings and lists of strings come
\* back as they were written.
asdict(request) ==
    [package |-> request.package, version |-> request.version,
     python_tag |-> request.python_tag, platform_tag |-> request.platform_tag,
     recipes |-> [k \in 1..Len(request.recipes) |-> request.recipes[k]]]

\* RetryRequest(**item) for an item of the file.
FromItem(item) ==
    [package |-> item.package, version |-> item.version,
     python_tag |-> item.python_tag, platform_tag |-> item.platform_tag,
     recipes |-> item.recipes]

\* RetryQueue.add: the file after the call and the value returned.
add(data, request) ==
    LET grown == Append(data, asdict(request))
    IN [queue |-> grown, result |-> Len(grown)]

\* A pop_all that does not write the empty list back.
pop_all_keeps_file(data) ==
    [queue |-> data, result |-> [k \in 1..Len(data) |-> FromItem(data[k])]]

\* RetryQueue.pop_all: the file after the call and the list returned.
pop_all(data) ==
    [queue |-> <<>>, result |-> [k \in 1..Len(data) |-> FromItem(data[k])]]

\* The queue file and a process_queue call before its first step.  `last` is
\* the last call made on the queue with what it returned; `pending` lists the
\* requests added since the last pop_all; `built` lists the build_job calls
\* of process_queue as <<request index, job>>.
WorkerStart(data, plan) ==
    [queue |-> data, pending |-> <<>>,
     last |-> [op |-> "none", result |-> <<>>, expected |-> <<>>],
     pc |-> "idle", plan |-> plan, requests |-> <<>>, i |-> 1, j |-> 1,
     built |-> <<>>, error |-> ""]

\* The value of `worker` in the specifications without a retry queue.
NoWorker == WorkerStart(<<>>, Plan(<<>>, <<>>, <<>>, <<>>))

\* main, lines 149-175: every reusable wheel is copied out, entered in the
\* manifest and recorded.
CopyReusables ==
    LET reusable == run.plan.reusable
    IN /\ run.pc = "reusables"
       /\ run' = [run EXCEPT !.pc = "filter",
                             !.manifest = @ \o [k \in 1..Len(reusable) |->
                                 Entry(reusable[k].name, reusable[k].version, "reused")]]
       /\ events' = RecordAll(events, [k \in 1..Len(reusable) |->
                                          Event(reusable[k], "reused", 0, "", "")])
       /\ output_dir' = output_dir \cup
                           { WheelFile(reusable[k].name, reusable[k].version, "py3", "any") :
                               k \in 1..Len(reusable) }
       /\ UNCHANGED <<cfg, overrides, cache_wheels, attempt_counts, completed, frame,
                      performed, terminal, calls, ensure_ready_once>>
       /\ UNCHANGED <<resolver, sched, worker>>

\* main, lines 177-203: the jobs to run, the manifest and the history after
\* the loop over plan.to_build.
RECURSIVE FilterJobs(_, _, _)
FilterJobs(jobs, skip, acc) ==
    IF jobs = <<>> THEN acc
    ELSE LET job == Head(jobs)
             known == /\ skip
                      /\ last_event(acc.events, job.name, job.version).status
                            \in {"failed", "missing", "system_recipe_failed"}
         IN FilterJobs(Tail(jobs), skip,
              IF known
              THEN [acc EXCEPT !.manifest = Append(@, Entry(job.name, job.version,
                                                           "skipped_known_failure")),
                               !.events = record_event(@, Event(job, "skipped_known_failure",
                                                                0, "", ""))]
              ELSE [acc EXCEPT !.jobs_to_run = Append(@, job)])

FilterKnownFailures ==
    LET r == FilterJobs(run.plan.to_build, run.args.skip_known_failures,
                        [jobs_to_run |-> <<>>, manifest |-> run.manifest, events |-> events])
    IN /\ run.pc = "filter"
       /\ run' = [run EXCEPT !.pc = "schedule", !.jobs_to_run = r.jobs_to_run,
                             !.manifest = r.manifest]
       /\ events' = r.events
       /\ UNCHANGED <<cfg, overrides, cache_wheels, output_dir, attempt_counts, completed,
                      frame, performed, terminal, calls, ensure_ready_once>>
       /\ UNCHANGED <<resolver, sched, worker>>

\* main, lines 205-208: schedule_jobs; what it raises ends main.  (The
\* recorded durations do not matter to the outcome: see schedule_jobs.)  Then
\* builder.ensure_ready() (line 208) on the new builder: its commands exit 0
\* and the flag is set, or one exits non-zero and CalledProcessError ends main.
ScheduleRun ==
    LET r == schedule_jobs(run.jobs_to_run, <<>>, run.args.schedule)
    IN /\ run.pc = "schedule"
       /\ \E ready \in BOOLEAN :
             /\ run' = IF r.error # ""
                       THEN [run EXCEPT !.pc = "crashed", !.error = r.error]
                       ELSE IF ~ready
                       THEN [run EXCEPT !.pc = "crashed",
                                        !.error = "CalledProcessError:ensure_ready",
                                        !.jobs_to_run = r.jobs]
                       ELSE [run EXCEPT !.pc = "build", !.jobs_to_run = r.jobs,
                                        !.outcome = [k \in 1..Len(r.jobs) |-> "none"],
                                        !.trace = [k \in 1..Len(r.jobs) |-> Trace(IdleFrame)]]
             /\ ensure_ready_once' = (ensure_ready_once \/ (r.error = "" /\ ready))
       /\ UNCHANGED <<cfg, overrides, cache_wheels, output_dir, attempt_counts, completed,
                      events, frame, performed, terminal, calls>>
       /\ UNCHANGED <<resolver, sched, worker>>

\* A handler that enters the failure in the manifest and records nothing.
JobFailedUnrecorded(manifest, log, job) ==
    [manifest |-> Append(manifest, Entry(job.name, job.version, "failed")),
     events |-> log]

\* A handler that records the failure and enters nothing in the manifest.
JobFailedNoEntry(manifest, log, job) ==
    [manifest |-> manifest,
     events |-> record_event(log, Event(job, "failed", 0, "", ""))]

\* The except branch of the job boundary (cli.py 219-246 and 303-331).
JobFailed(manifest, log, job) ==
    [manifest |-> Append(manifest, Entry(job.name, job.version, "failed")),
     events |-> record_event(log, Event(job, "failed", 0, "", ""))]

\* The parents _enqueue_parents goes on to enqueue (cli.py 337-341): the
\* lowercased names whose key (name, version of the job) is not in the
\* builder's completed set.
_parents_to_enqueue(job, done) ==
    { p \in { Lower(q) : q \in job.parents } : <<p, job.version>> \notin done }

\* _enqueue_parents up to its first BuildJob(...): the constructor is given
\* children=[], a keyword models.BuildJob does not take, so the first parent
\* that is not completed raises TypeError.
_enqueue_parents(job, done) ==
    IF job.parents = {} THEN "return"
    ELSE IF _parents_to_enqueue(job, done) = {} THEN "return"
    ELSE "TypeError"

\* The worker threads of a run: none but main when args.jobs <= 1.
Workers == IF run.args.jobs <= 1 THEN {"main"} ELSE {"w1", "w2"}

\* The next job starts: _run_single_build calls build_job (sequential), or a
\* pool thread takes the next submitted job.
StartJob(w) ==
    /\ run.pc = "build"
    /\ w \in Workers
    /\ frame[w].pc = "idle"
    /\ run.next <= Len(run.jobs_to_run)
    /\ run' = [run EXCEPT !.next = @ + 1, !.running[w] = run.next]
    /\ calls' = calls + 1
    /\ Enter(w, run.jobs_to_run[run.next])
    /\ UNCHANGED worker

\* The job boundary: the try/except of _run_single_build (298-331) and of the
\* as_completed loop of main (214-246).
JobBoundary(w) ==
    LET f == frame[w]
        job == f.job
        k == run.running[w]
        returned == f.pc = "returned"
        with_entry == IF returned
                      THEN Append(run.manifest, Entry(job.name, job.version, f.result))
                      ELSE run.manifest
        failed == ~returned \/ _enqueue_parents(job, completed) = "TypeError"
        r == IF failed THEN JobFailed(with_entry, events, job)
             ELSE [manifest |-> with_entry, events |-> events]
    IN /\ run.pc = "build"
       /\ w \in Workers
       /\ Finished(f)
       /\ run' = [run EXCEPT !.manifest = r.manifest, !.running[w] = 0,
                             !.outcome[k] = f.pc, !.trace[k] = Trace(f)]
       /\ events' = r.events
       /\ frame' = [frame EXCEPT ![w] = IdleFrame]
       /\ UNCHANGED <<cfg, overrides, cache_wheels, output_dir, attempt_counts, completed,
                      performed, terminal, calls, ensure_ready_once>>
       /\ UNCHANGED <<resolver, sched, worker>>

\* The exit status of main (lines 292-295), from failed entries alone.
ExitCodeFailedOnly(manifest) ==
    IF \E k \in 1..Len(manifest) : manifest[k].status \in {"failed"} THEN 1 ELSE 0

\* The exit status of main (lines 292-295).
ExitCode(manifest) ==
    IF \E k \in 1..Len(manifest) : manifest[k].status \in {"failed", "missing"} THEN 1 ELSE 0

\* main, lines 251-295, once every job has passed its boundary: the missing
\* requirements, the expansion events, the manifest and the exit status.
Finish ==
    LET missing == run.plan.missing_requirements
        expansions == run.plan.dependency_expansions
        entries == run.manifest \o [k \in 1..Len(missing) |->
                                      Entry(ReqStr(missing[k]), "unknown", "missing")]
    IN /\ run.pc = "build"
       /\ run.next > Len(run.jobs_to_run)
       /\ \A w \in Threads : frame[w].pc = "idle"
       /\ run' = [run EXCEPT !.pc = "exited", !.manifest = entries,
                             !.exit_code = ExitCode(entries)]
       /\ events' = RecordAll(events,
                       [k \in 1..Len(missing) |->
                          Event([name |-> ReqStr(missing[k]), version |-> "unknown"],
                                "missing", 0, "", "")]
                       \o [k \in 1..Len(expansions) |->
                             Event(expansions[k], "planned_dependency_expansion", 0, "", "")])
       /\ UNCHANGED <<cfg, overrides, cache_wheels, output_dir, attempt_counts, completed,
                      frame, performed, terminal, calls, ensure_ready_once>>
       /\ UNCHANGED <<resolver, sched, worker>>

----------------------------------------------------------------------------
\* SpecBuilder: any sequence of build_job calls on one builder, one at a time.

\* The configurations SpecBuilder starts from, as <<config, overrides>>: the
\* defaults of config.py (backoff 5 s up to 60 s, recipes allowed, no
\* auto-apply) for every max_attempts up to the bound, a backoff that reaches
\* its cap, and the default 3 attempts with a recipe override and each flag
\* flipped.
PlainOverrides == [n \in OverrideNames |-> NoOverride]
RecipeOverrides ==
    [n \in OverrideNames |->
        IF n = "dep" THEN Override(TRUE, <<>>, <<"step1", "step2">>) ELSE NoOverride]

BuilderSetups ==
    { <<Config(m, 5, 60, FALSE, TRUE, FALSE), PlainOverrides>> : m \in 0..MaxAttemptsBound }
    \cup { <<Config(MaxAttemptsBound, 30, 60, FALSE, TRUE, FALSE), PlainOverrides>>,
           <<Config(3, 5, 60, TRUE, TRUE, FALSE), PlainOverrides>>,
           <<Config(3, 5, 60, FALSE, TRUE, FALSE), RecipeOverrides>>,
           <<Config(3, 5, 60, FALSE, FALSE, FALSE), RecipeOverrides>>,
           <<Config(3, 5, 60, FALSE, TRUE, TRUE), RecipeOverrides>>,
           <<Config(2, 5, 60, TRUE, TRUE, FALSE), RecipeOverrides>> }

InitBuilder ==
    /\ \E su \in BuilderSetups : cfg = su[1] /\ overrides = su[2]
    /\ cache_wheels \in InitialCaches
    /\ output_dir = {}
    /\ attempt_counts = [k \in AllKeys |-> 0]
    /\ completed = {}
    /\ events = <<>>
    /\ frame = [t \in Threads |-> IdleFrame]
    /\ performed = [k \in AllKeys |-> 0]
    /\ terminal = {}
    /\ calls = 0
    /\ ensure_ready_once = FALSE
    /\ resolver = NoResolver
    /\ sched = NoSched
    /\ worker = NoWorker
    /\ run = NoRun

\* A caller invokes build_job(job) when no call is running.
Invoke(job) ==
    /\ frame["main"].pc \in {"idle", "returned", "raised"}
    /\ calls < MaxCalls
    /\ calls' = calls + 1
    /\ Enter("main", job)
    /\ UNCHANGED <<run, worker>>

NextBuilder ==
    \/ \E job \in BuilderJobs : Invoke(job)
    \/ EnsureReadyOk("main")
    \/ EnsureReadyFails("main")
    \/ RecipeStepOk("main")
    \/ RecipeStepFails("main")
    \/ ReturnCached("main")
    \/ RecordCached("main")
    \/ CacheMiss("main")
    \/ AttemptFails("main")
    \/ AttemptTimesOut("main")
    \/ AttemptBuildsWheel("main")
    \/ BuildCommandRuns("main")
    \/ AttemptFindsNoWheel("main")
    \/ RecordFailedAttempt("main")
    \/ AfterLoop("main")

SpecBuilder == InitBuilder /\ [][NextBuilder]_vars

----------------------------------------------------------------------------
\* The builder state of a specification that builds nothing.
BuilderUnused ==
    /\ cfg = Config(3, 5, 60, FALSE, TRUE, FALSE)
    /\ overrides = PlainOverrides
    /\ cache_wheels = {}
    /\ output_dir = {}
    /\ attempt_counts = [k \in AllKeys |-> 0]
    /\ completed = {}
    /\ events = <<>>
    /\ frame = [t \in Threads |-> IdleFrame]
    /\ performed = [k \in AllKeys |-> 0]
    /\ terminal = {}
    /\ calls = 0
    /\ ensure_ready_once = FALSE

\* SpecResolver: build_plan on a scanned directory.
InitResolver ==
    /\ BuilderUnused
    /\ sched = NoSched
    /\ worker = NoWorker
    /\ run = NoRun
    /\ \E dir \in ScannedDirectories, settings \in ResolverSettings :
          resolver = [ResolverStart(<<>>, settings) EXCEPT !.pc = "scan", !.dir = dir]

NextResolver ==
    \/ ScanDirectory
    \/ ClassifyWheel
    \/ ClassifyNothing
    \/ ResolveRequirement
    \/ ExpandAndReturn

SpecResolver == InitResolver /\ [][NextResolver]_vars

\* SpecSuggest: any sequence of _apply_suggestion calls on one builder.

\* The hints applied: the one hint build_job can pass (the timeout hint), the
\* "Suggest install:" form _apply_suggestion reads, with surrounding text and
\* with nothing after the colon, and the form _hint_from_logs writes.
SuggestionHints ==
    {TimeoutHint, "Suggest install: libffi-dev", "Suggest install:  zlib1g-dev ",
     "Hint: Suggest install: libffi-dev", "Suggest install:",
     "Suggested packages: dnf: openssl-devel"}

\* The overrides of the configuration before the first call: none, a recipe
\* for dep, system packages for dep.
SuggestOverrides ==
    { PlainOverrides, RecipeOverrides,
      [n \in OverrideNames |->
          IF n = "dep" THEN Override(TRUE, <<"libffi-dev">>, <<>>) ELSE NoOverride] }

InitSuggest ==
    /\ cfg = Config(3, 5, 60, TRUE, TRUE, FALSE)
    /\ overrides \in SuggestOverrides
    /\ cache_wheels = {}
    /\ output_dir = {}
    /\ attempt_counts = [k \in AllKeys |-> 0]
    /\ completed = {}
    /\ events = <<>>
    /\ frame = [t \in Threads |-> IdleFrame]
    /\ performed = [k \in AllKeys |-> 0]
    /\ terminal = {}
    /\ calls = 0
    /\ ensure_ready_once = FALSE
    /\ resolver = NoResolver
    /\ sched = NoSched
    /\ worker = NoWorker
    /\ run = NoRun

\* One call self._apply_suggestion(job, hint).  It ends with the
\* AttributeError of line 584; the frame keeps the job and the hints applied
\* so far.
ApplySuggestion(job, hint) ==
    /\ calls < MaxApplications
    /\ calls' = calls + 1
    /\ overrides' = _apply_suggestion(job, hint, overrides)
    /\ frame' = [frame EXCEPT !["main"] =
                    [@ EXCEPT !.pc = "raised", !.error = "AttributeError", !.job = job,
                              !.log = Append(@, [attempt |-> calls + 1, hint |-> hint,
                                                 recorded |-> FALSE])]]
    /\ UNCHANGED <<cfg, cache_wheels, output_dir, attempt_counts, completed, events,
                   performed, terminal, ensure_ready_once, resolver, sched, run, worker>>

NextSuggest == \E job \in BuilderJobs, hint \in SuggestionHints : ApplySuggestion(job, hint)

SpecSuggest == InitSuggest /\ [][NextSuggest]_vars

\* SpecSched: schedule_jobs on a list of jobs, a history and a strategy.
InitSched ==
    /\ BuilderUnused
    /\ resolver = NoResolver
    /\ run = NoRun
    /\ worker = NoWorker
    /\ \E jobs \in SeqsUpTo(SchedJobs, MaxJobs), history \in SchedHistories,
          strategy \in {"shortest-first", "fifo"} :
          sched = SchedStart(jobs, history, strategy)

NextSched == Schedule \/ ScheduleAgain

SpecSched == InitSched /\ [][NextSched]_vars

\* SpecRun: main after build_plan, on the plans build_plan returns for
\* directories of universal wheels.

\* app <- dep==1.0.0
PlanPinned ==
    Plan(<<[name |-> "app", version |-> "1.0"]>>,
         <<Job("dep", "1.0.0", "missing dependency", 0, {})>>, <<>>, <<>>)
\* app <- lib>=1.0, dep==1.0.0; purepkg: a pinned job, an unsatisfiable
\* requirement and the expansion job for it.
PlanExpanded ==
    Plan(<<[name |-> "app", version |-> "1.0"], [name |-> "purepkg", version |-> "1.0.0"]>>,
         <<Job("dep", "1.0.0", "missing dependency", 0, {}),
           Job("lib", "latest", "dependency expansion", 1, {"dep"})>>,
         <<Req("lib", ">=", "1.0")>>,
         <<Job("lib", "latest", "dependency expansion", 1, {"dep"})>>)
\* app <- lib==2.0, Dep==1.0.0
PlanTwoJobs ==
    Plan(<<[name |-> "app", version |-> "1.0"]>>,
         <<Job("lib", "2.0", "missing dependency", 0, {}),
           Job("Dep", "1.0.0", "missing dependency", 0, {})>>,
         <<>>, <<>>)
\* app <- lib>=1.0 with nothing to build it from.
PlanMissing ==
    Plan(<<[name |-> "app", version |-> "1.0"]>>, <<>>, <<Req("lib", ">=", "1.0")>>, <<>>)
\* app alone.
PlanReuseOnly ==
    Plan(<<[name |-> "app", version |-> "1.0"]>>, <<>>, <<>>, <<>>)

RunPlans == {PlanPinned, PlanExpanded, PlanTwoJobs, PlanMissing, PlanReuseOnly}

\* The history an earlier run left: nothing, or a failed build of dep 1.0.0.
PriorHistories ==
    { <<>>,
      record_event(<<>>, Event([name |-> "dep", version |-> "1.0.0"], "failed", 0, "", "")) }

\* The histories a run of main starts on: those, and the history process_queue
\* leaves when a recipe step of dep 1.0.0 failed (the exception leaves
\* process_queue, so the recipe failure is the last event of the job).
RunHistories ==
    PriorHistories \cup
    { record_event(<<>>, Event([name |-> "dep", version |-> "1.0.0"],
                               "system_recipe_failed", 0, "", "")) }

RunSetups ==
    { <<Config(2, 5, 60, FALSE, TRUE, FALSE), PlainOverrides>>,
      <<Config(1, 5, 60, FALSE, TRUE, FALSE), RecipeOverrides>> }

InitRun ==
    /\ \E su \in RunSetups : cfg = su[1] /\ overrides = su[2]
    /\ cache_wheels \in { {}, PrecachedFiles }
    /\ output_dir = {}
    /\ attempt_counts = [k \in AllKeys |-> 0]
    /\ completed = {}
    /\ events \in RunHistories
    /\ frame = [t \in Threads |-> IdleFrame]
    /\ performed = [k \in AllKeys |-> 0]
    /\ terminal = {}
    /\ calls = 0
    /\ ensure_ready_once = FALSE
    /\ resolver = NoResolver
    /\ sched = NoSched
    /\ worker = NoWorker
    /\ \E plan \in RunPlans, jobs \in {1, 2}, schedule \in {"shortest-first", "fifo"},
          skip \in BOOLEAN :
          run = [RunStart(plan, Args(jobs, schedule, skip))
                    EXCEPT !.prior_events = Len(events)]

NextRun ==
    \/ CopyReusables
    \/ FilterKnownFailures
    \/ ScheduleRun
    \/ \E w \in Threads : StartJob(w)
    \/ \E w \in Threads : JobBoundary(w)
    \/ Finish
    \/ \E w \in Threads : RecipeStepOk(w)
    \/ \E w \in Threads : RecipeStepFails(w)
    \/ \E w \in Threads : ReturnCached(w)
    \/ \E w \in Threads : RecordCached(w)
    \/ \E w \in Threads : CacheMiss(w)
    \/ \E w \in Threads : AttemptFails(w)
    \/ \E w \in Threads : AttemptTimesOut(w)
    \/ \E w \in Threads : AttemptBuildsWheel(w)
    \/ \E w \in Threads : BuildCommandRuns(w)
    \/ \E w \in Threads : AttemptFindsNoWheel(w)
    \/ \E w \in Threads : RecordFailedAttempt(w)
    \/ \E w \in Threads : AfterLoop(w)

SpecRun == InitRun /\ [][NextRun]_vars

----------------------------------------------------------------------------
\* Properties of the builder (SpecBuilder).

\* The events of the call thread w is running (or has just finished) that
\* have the given status.
CallEvents(w, statuses) ==
    { i \in (frame[w].ev_start + 1)..Len(events) :
        /\ events[i].status \in statuses
        /\ <<Lower(events[i].name), events[i].version>> = KeyOf(frame[w].job) }

\* Events of an attempt beyond the configured ones (the hint retry is attempt
\* max_attempts + 1).
HintRetryEvents(w) ==
    { i \in (frame[w].ev_start + 1)..Len(events) :
        /\ <<Lower(events[i].name), events[i].version>> = KeyOf(frame[w].job)
        /\ events[i].attempt > cfg.max_attempts }

\* C1 (as stated): a build_job invocation with max_attempts = N whose build
\* attempts all fail records exactly N failed_attempt events, plus exactly one
\* hint-retry event if the last failure carried a hint.
C1_AttemptBudget ==
    \A w \in Threads :
        LET f == frame[w]
        IN (f.pc = "raised" /\ f.log # <<>>) =>
              /\ Cardinality(CallEvents(w, {"failed_attempt"})) = cfg.max_attempts
              /\ Cardinality(HintRetryEvents(w)) =
                    IF f.log[Len(f.log)].hint # "" THEN 1 ELSE 0

\* The cache holds an artifact for the job: the file name parses, its name and
\* version are the job's, and its tag is for the target interpreter (cp311 or
\* a py3 tag) and for "any" or an s390x platform.
C2_CacheHolds(job, cache) ==
    \E file \in cache :
        /\ file.version \in {"1.0", "1.0.0", "2.0"}
        /\ Lower(file.dist) = Lower(job.name)
        /\ file.version = job.version
        /\ file.interpreter \in {"cp311", "py3", "py39"}
        /\ file.platform \in {"any", "manylinux2014_s390x", "linux_s390x"}

\* What C2 promises of a finished call: a cached result, the attempt counter
\* as it was, no failed_attempt and no built event.
C2_Reused(w) ==
    /\ frame[w].pc = "returned"
    /\ frame[w].result = "cached"
    /\ attempt_counts[KeyOf(frame[w].job)] = frame[w].count_at_entry
    /\ performed[KeyOf(frame[w].job)] = frame[w].performed_at_entry
    /\ CallEvents(w, {"failed_attempt", "built"}) = {}

C3_CountWithinMax ==
    \A key \in AllKeys :
        (performed[key] > cfg.max_attempts \/ attempt_counts[key] > cfg.max_attempts)
            => key \in terminal

\* The attempts of two calls together exceed max_attempts, the first call
\* having failed.
C3_Witness ==
    \E key \in AllKeys :
        /\ cfg.max_attempts >= 1
        /\ performed[key] > cfg.max_attempts
        /\ attempt_counts[key] = cfg.max_attempts
        /\ key \in terminal

\* C4: the k-th sleep of a call lasts min(backoff_max, backoff_base * 2^(k-1))
\* seconds (5, 10, 20 and then at most 60 with base 5 and max 60); there is
\* one sleep per recorded failure except after the last configured attempt.
C4_Backoff ==
    \A w \in Threads :
        LET f == frame[w]
            base == cfg.attempt_backoff_base
            cap == cfg.attempt_backoff_max
            failures == Cardinality({ i \in 1..Len(f.log) : f.log[i].recorded })
        IN /\ \A k \in 1..Len(f.sleeps) :
                 /\ f.sleeps[k] = IF base * 2^(k - 1) > cap THEN cap ELSE base * 2^(k - 1)
                 /\ (base = 5 /\ cap = 60) =>
                        /\ k <= 3 => f.sleeps[k] = <<5, 10, 20>>[k]
                        /\ f.sleeps[k] <= 60
           /\ Len(f.sleeps) = IF failures = 0 THEN 0
                              ELSE IF failures < cfg.max_attempts THEN failures
                              ELSE cfg.max_attempts - 1

\* A call that used all its attempts slept after each but the last, the last
\* sleep at the cap.
C4_Witness ==
    \E w \in Threads :
        /\ frame[w].error = "RuntimeError:Exhausted"
        /\ Len(frame[w].log) = cfg.max_attempts
        /\ Len(frame[w].sleeps) = 3
        /\ frame[w].sleeps[1] < cfg.attempt_backoff_max
        /\ frame[w].sleeps[3] = cfg.attempt_backoff_max

----------------------------------------------------------------------------
\* Properties of the resolver (SpecResolver).

\* The jobs of the plan for a (name, version) with a given reason.
PlannedJobs(name, version, reason) ==
    { k \in 1..Len(resolver.plan.to_build) :
        /\ Lower(resolver.plan.to_build[k].name) = Lower(name)
        /\ resolver.plan.to_build[k].version = version
        /\ resolver.plan.to_build[k].reason = reason }

\* C7 (as stated): once phase 1 of build_plan is over, every scanned wheel
\* that is universal or supports the target is in reusable and has no
\* incompatible-wheel job, and every other wheel has exactly one to_build job
\* with its (name, version) and reason "incompatible wheel".
C7_Classified ==
    resolver.pc # "classify" =>
        \A k \in 1..Len(resolver.wheels) :
            LET wheel == resolver.wheels[k]
            IN IF is_pure_python(wheel) \/ SupportsTarget(wheel)
               THEN /\ \E m \in 1..Len(resolver.plan.reusable) :
                          /\ resolver.plan.reusable[m].name = wheel.name
                          /\ resolver.plan.reusable[m].version = wheel.version
                    /\ PlannedJobs(wheel.name, wheel.version, "incompatible wheel") = {}
               ELSE Cardinality(PlannedJobs(wheel.name, wheel.version,
                                            "incompatible wheel")) = 1

\* C8 (as stated): when build_plan is over, for every requirement pinned with
\* == or === to a version, of a package no scanned wheel provides and no
\* earlier requirement names, a Plan was returned and it holds exactly one
\* job for that (name, version), with reason "missing dependency".
C8_PinnedPlannedOnce ==
    resolver.pc \in {"returned", "raised"} =>
        LET reqs == _collect_requirements(resolver.wheels)
        IN \A k \in 1..Len(reqs) :
              ( /\ reqs[k].op \in {"==", "==="}
                /\ VersionKey(reqs[k].version) # 0
                /\ \A m \in 1..Len(resolver.wheels) :
                       Lower(resolver.wheels[m].name) # Lower(reqs[k].name)
                /\ \A m \in 1..(k - 1) : Lower(reqs[m].name) # Lower(reqs[k].name) )
              => /\ resolver.pc = "returned"
                 /\ Cardinality(PlannedJobs(reqs[k].name, reqs[k].version,
                                            "missing dependency")) = 1

\* C9: in a Plan build_plan returns, no two jobs of to_build have the same
\* (lowercased name, version).
C9_NoDuplicateJobs ==
    resolver.pc = "returned" =>
        \A a, b \in 1..Len(resolver.plan.to_build) :
            ( /\ Lower(resolver.plan.to_build[a].name) = Lower(resolver.plan.to_build[b].name)
              /\ resolver.plan.to_build[a].version = resolver.plan.to_build[b].version )
            => a = b

\* A returned Plan with two pinned jobs of one package, a requirement that
\* was dropped as already planned, and an expansion job.
C9_Witness ==
    /\ resolver.pc = "returned"
    /\ resolver.deduped >= 1
    /\ Len(resolver.plan.to_build) = 3
    /\ resolver.plan.dependency_expansions # <<>>

----------------------------------------------------------------------------
\* Properties of the scheduler (SpecSched).

\* The sort key of the claim for a job: its depth, then its average recorded
\* duration (none: +infinity); the jobs of models.BuildJob carry no CPU or
\* memory hint.
C10_KeyLess(a, b) ==
    LET da == _avg_duration(sched.history, a.name)
        db == _avg_duration(sched.history, b.name)
    IN \/ a.depth < b.depth
       \/ a.depth = b.depth /\ da[2] # 0 /\ (db[2] = 0 \/ da[1] * db[2] < db[1] * da[2])

\* C10 (as stated): schedule_jobs with strategy shortest-first returns a
\* permutation of its input sorted ascending by (depth, average duration or
\* +infinity, CPU hint, memory hint), jobs with equal keys in submission
\* order.
C10_ShortestFirst ==
    (sched.pc # "call" /\ sched.strategy = "shortest-first") =>
        /\ sched.pc = "returned"
        /\ Len(sched.result) = Len(sched.jobs)
        /\ \E perm \in [1..Len(sched.jobs) -> 1..Len(sched.jobs)] :
              /\ \A a, b \in 1..Len(sched.jobs) : perm[a] = perm[b] => a = b
              /\ \A k \in 1..Len(sched.jobs) : sched.result[k] = sched.jobs[perm[k]]
              /\ \A a, b \in 1..Len(sched.jobs) :
                    a < b => /\ ~C10_KeyLess(sched.jobs[perm[b]], sched.jobs[perm[a]])
                             /\ (~C10_KeyLess(sched.jobs[perm[a]], sched.jobs[perm[b]])
                                    => perm[a] < perm[b])

\* Properties of _apply_suggestion (SpecSuggest).

NoDuplicates(seq) == \A i, j \in 1..Len(seq) : seq[i] = seq[j] => i = j

\* C12: however often suggestions are applied, no override lists a system
\* package or a recipe step twice; the job of the last application has an
\* override, and it lists the package the hint suggests exactly once.
C12_AppliedOnce ==
    /\ \A n \in OverrideNames :
          /\ NoDuplicates(overrides[n].system_packages)
          /\ NoDuplicates(overrides[n].system_recipe)
    /\ calls > 0 =>
          LET f == frame["main"]
              n == _override_for(f.job, overrides)
              hint == f.log[Len(f.log)].hint
          IN /\ n # ""
             /\ overrides[n].present
             /\ HasSuggestInstall(hint) =>
                   Cardinality({ k \in 1..Len(overrides[n].system_packages) :
                       overrides[n].system_packages[k] = SuggestInstall(hint) }) = 1

\* The same suggestion applied three times to a job that had no override:
\* the override was created and lists the package once.
C12_Witness ==
    /\ calls = 3
    /\ LET f == frame["main"]
       IN /\ \A k \in 1..3 : f.log[k].hint = "Suggest install: libffi-dev"
          /\ f.job.name = "lib"
          /\ overrides["lib"] = Override(TRUE, <<"libffi-dev">>, <<>>)

----------------------------------------------------------------------------
\* C11 (as stated): with strategy fifo the call returns the jobs in their
\* submission order, and with either strategy a second call with the same
\* jobs and the same history returns the same sequence as the first.
C11_FifoAndDeterministic ==
    /\ (sched.pc # "call" /\ sched.strategy = "fifo") =>
          sched.pc = "returned" /\ sched.result = sched.jobs
    /\ sched.second.pc # "none" =>
          /\ sched.pc = "returned"
          /\ sched.second.pc = "returned"
          /\ sched.second.result = sched.result

\* What holds of the two calls: fifo returns its input, and the second call
\* ends as the first did, with the same sequence or the same exception.
C11_SameOutcome ==
    /\ (sched.pc # "call" /\ sched.strategy = "fifo") =>
          sched.pc = "returned" /\ sched.result = sched.jobs
    /\ sched.second.pc # "none" =>
          /\ sched.second.pc = sched.pc
          /\ sched.second.error = sched.error
          /\ sched.second.result = sched.result

----------------------------------------------------------------------------
\* C5 and C6 are stated over SpecRun.

\* The rows this run added to the history.
RunEvents == SubSeq(events, run.prior_events + 1, Len(events))

HasFailedEntry(job) ==
    \E i \in 1..Len(run.manifest) :
        run.manifest[i] = Entry(job.name, job.version, "failed")

HasFailedEvent(job) ==
    \E i \in 1..Len(RunEvents) :
        /\ RunEvents[i].name = job.name
        /\ RunEvents[i].version = job.version
        /\ RunEvents[i].status = "failed"

\* C5: in a sequential run and in a pool run, every job whose build_job
\* call raised has, once it has passed the job boundary, a manifest entry
\* with status failed and a failed event recorded by this run; a run that has
\* started its jobs never ends abnormally, and when it ends every job handed
\* to the scheduler has been started and has returned or raised.
C5_FailuresCaught ==
    /\ \A k \in 1..Len(run.outcome) :
          run.outcome[k] = "raised" =>
             /\ HasFailedEntry(run.jobs_to_run[k])
             /\ HasFailedEvent(run.jobs_to_run[k])
    /\ run.pc = "crashed" => calls = 0 /\ run.next = 1
    /\ run.pc = "exited" =>
          /\ Len(run.outcome) = Len(run.jobs_to_run)
          /\ \A k \in 1..Len(run.outcome) : run.outcome[k] \in {"returned", "raised"}

\* A finished pool run of two jobs in which the job that raised passed the
\* boundary first and its sibling still returned its wheel afterwards.
C5_Witness ==
    /\ run.pc = "exited"
    /\ run.args.jobs = 2
    /\ Len(run.jobs_to_run) = 2
    /\ \E k, m \in 1..2 :
          /\ run.outcome[k] = "raised"
          /\ run.outcome[m] = "returned"
          /\ HasFailedEvent(run.jobs_to_run[k])
          /\ \E i, j \in 1..Len(run.manifest) :
                /\ i < j
                /\ run.manifest[i] = Entry(run.jobs_to_run[k].name,
                                           run.jobs_to_run[k].version, "failed")
                /\ run.manifest[j].name = run.jobs_to_run[m].name
                /\ run.manifest[j].status = "cached"

\* C6: every run that has ended has returned an exit status, which is 1 when
\* some manifest entry has status failed or missing and 0 otherwise; a job
\* whose build raised and a requirement that could not be planned each make
\* it 1.
C6_ExitStatusOfRun ==
    run.pc \in {"exited", "crashed"} =>
       /\ run.exit_code =
             IF \E i \in 1..Len(run.manifest) : run.manifest[i].status \in {"failed", "missing"}
             THEN 1 ELSE 0
       /\ (\E k \in 1..Len(run.outcome) : run.outcome[k] = "raised") => run.exit_code = 1
       /\ run.plan.missing_requirements # <<>> => run.exit_code = 1

\* The same of the runs in which main returns: what lines 292-295 compute.
C6_ExitStatus ==
    run.pc = "exited" =>
       /\ run.exit_code \in {0, 1}
       /\ run.exit_code = 1 <=>
             \E i \in 1..Len(run.manifest) : run.manifest[i].status \in {"failed", "missing"}
       /\ (\E k \in 1..Len(run.outcome) : run.outcome[k] = "raised") => run.exit_code = 1
       /\ run.plan.missing_requirements # <<>> => run.exit_code = 1

\* A sequential run that returns 1 for an unsatisfiable requirement alone:
\* no job was started and no entry is failed.
C6_Witness ==
    /\ run.pc = "exited"
    /\ run.exit_code = 1
    /\ run.args.jobs = 1
    /\ run.jobs_to_run = <<>>
    /\ run.plan.missing_requirements # <<>>
    /\ \A i \in 1..Len(run.manifest) : run.manifest[i].status # "failed"

----------------------------------------------------------------------------
\* Properties of the event log.

\* C13: no step of the builder or of the run driver removes, moves or
\* changes a row of the event log: after the step every earlier row is where
\* it was, with the fields it had, and the ids of the log increase strictly
\* in append order.
C13_AppendOnly ==
    [][/\ Len(events') >= Len(events)
       /\ \A k \in 1..Len(events) : events'[k] = events[k]
       /\ \A k \in 1..(Len(events') - 1) : events'[k].id < events'[k + 1].id]_vars

\* A finished pool run that started on a history with one row and added rows
\* of the driver and of the builder, among them two failed attempts of one job.
C13_Witness ==
    /\ run.pc = "exited"
    /\ run.args.jobs = 2
    /\ run.prior_events = 1
    /\ Len(events) >= 6
    /\ events[1].id = 1 /\ events[1].status = "failed"
    /\ \E i, j \in 1..Len(events) :
          /\ i < j
          /\ events[i].status = "failed_attempt" /\ events[j].status = "failed_attempt"
          /\ events[i].name = events[j].name

----------------------------------------------------------------------------
\* SpecHistory: record_event called on an empty database with the metadata
\* the callers pass, and the queries read after every call.

MaxEvents == 3

\* The packages and versions of the recorded events.
HistoryPackages ==
    { [name |-> "dep", version |-> "1.0.0"], [name |-> "dep", version |-> "2.0"],
      [name |-> "lib", version |-> "1.0.0"] }

HistoryVariants == {"default", "no_isolation"}

\* The rows record_event is called with: a built event with its variant and
\* duration_seconds, a failed attempt with its variant (its metadata has
\* "duration", not "duration_seconds"), and a cached event whose metadata has
\* no variant and whose notes either hold the word "variant" or not.
HistoryRows ==
    { [Event(p, "built", 1, v, "") EXCEPT !.duration = d] :
          p \in HistoryPackages, v \in HistoryVariants, d \in {10, 20} }
    \cup { Event(p, "failed_attempt", 1, v, "") : p \in HistoryPackages, v \in HistoryVariants }
    \cup { [Event(p, "cached", 0, "", "") EXCEPT !.mentions_variant = m] :
              p \in HistoryPackages, m \in BOOLEAN }

InitHistory ==
    /\ BuilderUnused
    /\ resolver = NoResolver
    /\ sched = NoSched
    /\ worker = NoWorker
    /\ run = NoRun

\* One call of record_event.
RecordEvent(e) ==
    /\ Len(events) < MaxEvents
    /\ events' = record_event(events, e)
    /\ UNCHANGED <<cfg, overrides, cache_wheels, output_dir, attempt_counts, completed,
                   frame, performed, terminal, calls, ensure_ready_once>>
    /\ UNCHANGED <<resolver, sched, run, worker>>

NextHistory == \E e \in HistoryRows : RecordEvent(e)

SpecHistory == InitHistory /\ [][NextHistory]_vars

\* The same queries computed by replaying the log from its first event to its
\* last.
RECURSIVE ReplayLast(_, _, _)
ReplayLast(log, name, version) ==
    IF log = <<>> THEN NoEvent
    ELSE LET e == log[Len(log)]
         IN IF e.name = name /\ (version # "" => e.version = version) THEN e
            ELSE ReplayLast(SubSeq(log, 1, Len(log) - 1), name, version)

RECURSIVE ReplayCount(_, _, _)
ReplayCount(log, name, st) ==
    IF log = <<>> THEN 0
    ELSE (IF Head(log).name = name /\ Head(log).status = st THEN 1 ELSE 0)
         + ReplayCount(Tail(log), name, st)

RECURSIVE ReplayDurations(_, _)
ReplayDurations(log, name) ==
    IF log = <<>> THEN <<0, 0>>
    ELSE LET rest == ReplayDurations(Tail(log), name)
             e == Head(log)
         IN IF e.name = name /\ e.duration # -1
            THEN <<rest[1] + e.duration, rest[2] + 1>> ELSE rest

RECURSIVE ReplayRate(_, _, _)
ReplayRate(log, name, v) ==
    IF log = <<>> THEN <<0, 0>>
    ELSE LET rest == ReplayRate(Tail(log), name, v)
             e == Head(log)
         IN IF e.name = name /\ e.variant = v
            THEN <<rest[1] + (IF e.status = "built" THEN 1 ELSE 0), rest[2] + 1>>
            ELSE rest

ReplayedExceptRates ==
    \A name \in {"dep", "lib", "app"} :
       /\ \A version \in {"", "1.0.0", "2.0"} :
             last_event(events, name, version) = ReplayLast(events, name, version)
       /\ LET s == package_summary(events, name)
          IN /\ \A st \in EventStatuses : s.status_counts[st] = ReplayCount(events, name, st)
             /\ s.latest = ReplayLast(events, name, "")
             /\ s.avg_duration = ReplayDurations(events, name)

\* C14: after any sequence of record_event calls every query equals the replay
\* of the log: last_event is the most recent event of the name (and version,
\* when one is given), package_summary gives the per-status counts, the latest
\* event and the mean of the recorded durations, and variant_success_rate has,
\* for each key it returns, the built events over all events of that variant.
C14_QueriesReplayLog ==
    /\ ReplayedExceptRates
    /\ \A name \in {"dep", "lib", "app"} : \A v \in HistoryVariants \cup {"unknown"} :
          variant_success_rate(events, name, v) = ReplayRate(events, name, v)

\* The part of C14 that holds: last_event, package_summary, and the rate of
\* every variant that an event of the log carries.
C14_ReplayExceptUnknown ==
    /\ ReplayedExceptRates
    /\ \A name \in {"dep", "lib", "app"} : \A v \in HistoryVariants :
          variant_success_rate(events, name, v) = ReplayRate(events, name, v)

\* Three events of dep with two variants, two versions and two durations.
C14_Witness ==
    /\ Len(events) = 3
    /\ \A k \in 1..3 : events[k].name = "dep"
    /\ events[1].status = "built" /\ events[1].duration = 10 /\ events[1].version = "1.0.0"
    /\ events[2].status = "failed_attempt" /\ events[2].variant = events[1].variant
    /\ events[3].status = "built" /\ events[3].duration = 20 /\ events[3].version = "2.0"
    /\ events[3].variant # events[1].variant

----------------------------------------------------------------------------
\* SpecPair: main with --jobs 1, then main with --jobs 2 on the same input
\* directory, cache, history and options, where every attempt and every recipe
\* step of a job ends as it ended in the first run.

InitPair ==
    /\ \E su \in RunSetups : cfg = su[1] /\ overrides = su[2]
    /\ cache_wheels \in { {}, PrecachedFiles }
    /\ output_dir = {}
    /\ attempt_counts = [k \in AllKeys |-> 0]
    /\ completed = {}
    /\ events \in PriorHistories
    /\ frame = [t \in Threads |-> IdleFrame]
    /\ performed = [k \in AllKeys |-> 0]
    /\ terminal = {}
    /\ calls = 0
    /\ ensure_ready_once = FALSE
    /\ resolver = NoResolver
    /\ sched = NoSched
    /\ worker = NoWorker
    /\ \E plan \in RunPlans, schedule \in {"shortest-first", "fifo"}, skip \in BOOLEAN :
          run = [RunStart(plan, Args(1, schedule, skip))
                    EXCEPT !.prior_events = Len(events),
                           !.initial = [cache_wheels |-> cache_wheels,
                                        overrides |-> overrides]]

\* The events a run added to the history, without their row ids.
AddedEvents ==
    [k \in 1..(Len(events) - run.prior_events) |->
        [events[run.prior_events + k] EXCEPT !.id = 0]]

\* The second run starts: the builder, the cache directory, the output
\* directory and the history are as they were before the first run, and main
\* is called with --jobs 2.
RunWithPool ==
    /\ run.pc \in {"exited", "crashed"}
    /\ run.first.pc = ""
    /\ run' = [RunStart(run.plan, [run.args EXCEPT !.jobs = 2])
                  EXCEPT !.prior_events = run.prior_events,
                         !.initial = run.initial,
                         !.first = [pc |-> run.pc, error |-> run.error,
                                    jobs_to_run |-> run.jobs_to_run,
                                    trace |-> run.trace,
                                    manifest |-> run.manifest,
                                    events |-> AddedEvents]]
    /\ overrides' = run.initial.overrides
    /\ cache_wheels' = run.initial.cache_wheels
    /\ output_dir' = {}
    /\ attempt_counts' = [k \in AllKeys |-> 0]
    /\ completed' = {}
    /\ events' = SubSeq(events, 1, run.prior_events)
    /\ frame' = [t \in Threads |-> IdleFrame]
    /\ performed' = [k \in AllKeys |-> 0]
    /\ terminal' = {}
    /\ calls' = 0
    /\ ensure_ready_once' = FALSE
    /\ UNCHANGED <<cfg, resolver, sched, worker>>

\* What the first run's build_job call of the job worker w runs met.
Script(w) ==
    IF run.running[w] \in 1..Len(run.first.trace)
    THEN run.first.trace[run.running[w]] ELSE Trace(IdleFrame)

\* The attempts and recipe steps of worker w's call have ended as those of
\* the first run's call for the same job.
SameOutcomes(w) ==
    LET f == frame[w]
        s == Script(w)
    IN \/ run.first.pc = ""
       \/ f.pc = "idle"
       \/ /\ Len(f.log) <= Len(s.log)
          /\ f.log = SubSeq(s.log, 1, Len(f.log))
          /\ f.step <= s.step
          /\ f.error = "CalledProcessError" =>
                s.error = "CalledProcessError" /\ f.step = s.step

\* The commands of ensure_ready end in the second run as in the first.
PairScheduleRun ==
    /\ ScheduleRun
    /\ run.first.pc # "" =>
          ((run'.error = "CalledProcessError:ensure_ready")
              <=> (run.first.error = "CalledProcessError:ensure_ready"))

PairRecipeStepOk(w) == RecipeStepOk(w) /\ SameOutcomes(w)'
PairRecipeStepFails(w) == RecipeStepFails(w) /\ SameOutcomes(w)'
PairAttemptFails(w) == AttemptFails(w) /\ SameOutcomes(w)'
PairAttemptTimesOut(w) == AttemptTimesOut(w) /\ SameOutcomes(w)'
PairAttemptBuildsWheel(w) == AttemptBuildsWheel(w) /\ SameOutcomes(w)'
PairBuildCommandRuns(w) == BuildCommandRuns(w) /\ SameOutcomes(w)'
PairAttemptFindsNoWheel(w) == AttemptFindsNoWheel(w) /\ SameOutcomes(w)'
PairRecordFailedAttempt(w) == RecordFailedAttempt(w) /\ SameOutcomes(w)'

NextPair ==
    \/ CopyReusables
    \/ FilterKnownFailures
    \/ PairScheduleRun
    \/ \E w \in Threads : StartJob(w)
    \/ \E w \in Threads : JobBoundary(w)
    \/ Finish
    \/ RunWithPool
    \/ \E w \in Threads : PairRecipeStepOk(w)
    \/ \E w \in Threads : PairRecipeStepFails(w)
    \/ \E w \in Threads : ReturnCached(w)
    \/ \E w \in Threads : RecordCached(w)
    \/ \E w \in Threads : CacheMiss(w)
    \/ \E w \in Threads : PairAttemptFails(w)
    \/ \E w \in Threads : PairAttemptTimesOut(w)
    \/ \E w \in Threads : PairAttemptBuildsWheel(w)
    \/ \E w \in Threads : PairBuildCommandRuns(w)
    \/ \E w \in Threads : PairAttemptFindsNoWheel(w)
    \/ \E w \in Threads : PairRecordFailedAttempt(w)
    \/ \E w \in Threads : AfterLoop(w)

SpecPair == InitPair /\ [][NextPair]_vars

SeqToSet(q) == { q[k] : k \in 1..Len(q) }

\* In the second run a call of build_job is never at a recipe step or at an
\* attempt that the first run's call for the job did not reach, and it ends
\* as that call ended.
PoolCallsAsFirst ==
    \A w \in Threads :
       LET f == frame[w]
           s == Script(w)
       IN f.pc # "idle" =>
            /\ SameOutcomes(w)
            /\ f.pc \in {"attempt", "collect", "handler"} => Len(f.log) < Len(s.log)
            /\ f.pc = "recipe" =>
                  f.step < s.step \/ (f.step = s.step /\ s.error = "CalledProcessError")
            /\ Finished(f) => Trace(f) = s

\* C15: for the same jobs and the same outcomes of the commands, the run with
\* one worker and the run with two workers end the same way (both return, or
\* both raise in schedule_jobs or in ensure_ready) with the same set of
\* manifest entries (name, version, status) and the same set of events; only
\* the order may differ.
C15_SameSets ==
    run.first.pc # "" =>
       /\ PoolCallsAsFirst
       /\ run.pc = "build" => run.jobs_to_run = run.first.jobs_to_run
       /\ run.pc \in {"exited", "crashed"} =>
             /\ run.pc = run.first.pc
             /\ run.error = run.first.error
             /\ SeqToSet(run.manifest) = SeqToSet(run.first.manifest)
             /\ SeqToSet(AddedEvents) = SeqToSet(run.first.events)

\* A finished pool run of two jobs whose manifest and events are those of the
\* sequential run in another order.
C15_Witness ==
    /\ run.first.pc = "exited"
    /\ run.pc = "exited"
    /\ Len(run.jobs_to_run) = 2
    /\ run.manifest # run.first.manifest
    /\ AddedEvents # run.first.events
    /\ \E k \in 1..Len(events) : events[k].status = "failed_attempt"

----------------------------------------------------------------------------
\* SpecConcurrent: two threads call build_job on one WheelBuilder, for any
\* jobs, the same (name, version) among them; their steps interleave.

PoolThreads == {"w1", "w2"}

InitConcurrent ==
    /\ \E su \in RunSetups : cfg = su[1] /\ overrides = su[2]
    /\ cache_wheels \in { {}, PrecachedFiles }
    /\ output_dir = {}
    /\ attempt_counts = [k \in AllKeys |-> 0]
    /\ completed = {}
    /\ events = <<>>
    /\ frame = [t \in Threads |-> IdleFrame]
    /\ performed = [k \in AllKeys |-> 0]
    /\ terminal = {}
    /\ calls = 0
    /\ ensure_ready_once = FALSE
    /\ resolver = NoResolver
    /\ sched = NoSched
    /\ worker = NoWorker
    /\ run = NoRun

\* Thread w calls build_job(job).
InvokeOn(w, job) ==
    /\ frame[w].pc = "idle"
    /\ calls < MaxCalls
    /\ calls' = calls + 1
    /\ Enter(w, job)
    /\ UNCHANGED <<run, worker>>

NextConcurrent ==
    \/ \E w \in PoolThreads, job \in BuilderJobs : InvokeOn(w, job)
    \/ \E w \in PoolThreads : EnsureReadyOk(w)
    \/ \E w \in PoolThreads : EnsureReadyFails(w)
    \/ \E w \in PoolThreads : RecipeStepOk(w)
    \/ \E w \in PoolThreads : RecipeStepFails(w)
    \/ \E w \in PoolThreads : ReturnCached(w)
    \/ \E w \in PoolThreads : RecordCached(w)
    \/ \E w \in PoolThreads : CacheMiss(w)
    \/ \E w \in PoolThreads : AttemptFails(w)
    \/ \E w \in PoolThreads : AttemptTimesOut(w)
    \/ \E w \in PoolThreads : AttemptBuildsWheel(w)
    \/ \E w \in PoolThreads : BuildCommandRuns(w)
    \/ \E w \in PoolThreads : AttemptFindsNoWheel(w)
    \/ \E w \in PoolThreads : RecordFailedAttempt(w)
    \/ \E w \in PoolThreads : AfterLoop(w)

SpecConcurrent == InitConcurrent /\ [][NextConcurrent]_vars

\* The call of thread w has passed the attempt-limit check and has not yet
\* written the counter itself.
BetweenCheckAndUpdate(w) ==
    /\ \/ frame[w].pc \in {"recipe", "probe", "attempt", "collect", "after_loop"}
       \/ frame[w].pc = "handler" /\ frame[w].found = NoFile
    /\ \A k \in 1..Len(frame[w].log) : frame[w].log[k].found = NoFile

\* C16: the check of the attempt counter and its update are one atomic step:
\* while a call is between its check and its own update, no other call
\* changes the counter of its (name, version), so no call goes on with a
\* count that has become stale.
C16_AtomicCheckAndUpdate ==
    \A w \in PoolThreads :
       BetweenCheckAndUpdate(w) =>
          attempt_counts[KeyOf(frame[w].job)] = frame[w].count_at_entry

\* What the missing exclusion lets through: a call that returns the cached
\* wheel, or starts an attempt, although the counter of its key has reached
\* max_attempts since its check.
C16_StaleCallActs ==
    \E w \in PoolThreads :
       /\ frame[w].pc \in {"returned", "attempt"}
       /\ frame[w].count_at_entry < cfg.max_attempts
       /\ attempt_counts[KeyOf(frame[w].job)] >= cfg.max_attempts
       /\ \A k \in 1..Len(frame[w].log) : frame[w].log[k].found = NoFile

----------------------------------------------------------------------------
\* SpecWriters: the pool threads call record_event on one BuildHistory while
\* the main thread reads it with recent().

\* A thread inside record_event: "payload" before the with statement,
\* "locked" once it holds self._lock and has connected, "inserted" after the
\* INSERT, "committed" after conn.commit(); leaving the with block releases
\* the lock.  `rows` is what the last recent() of the thread returned, and
\* `read_under_lock` says that a writer held the lock when it returned.
HistoryFrame(pc, e) == [pc |-> pc, event |-> e, rows |-> <<>>, read_under_lock |-> FALSE]

\* The threads that hold self._lock.
LockHolders == { w \in PoolThreads : frame[w].pc \in {"locked", "inserted", "committed"} }

\* The events the jobs of the pool record.
WriterEvents ==
    { Event([name |-> n, version |-> "1.0.0"], st, 1, "default", "") :
          n \in {"dep", "lib"}, st \in {"failed_attempt", "failed"} }

InitWriters ==
    /\ cfg = Config(3, 5, 60, FALSE, TRUE, FALSE)
    /\ overrides = PlainOverrides
    /\ cache_wheels = {}
    /\ output_dir = {}
    /\ attempt_counts = [k \in AllKeys |-> 0]
    /\ completed = {}
    /\ events \in PriorHistories
    /\ frame = [t \in Threads |-> HistoryFrame("idle", NoEvent)]
    /\ performed = [k \in AllKeys |-> 0]
    /\ terminal = {}
    /\ calls = 0
    /\ ensure_ready_once = FALSE
    /\ resolver = NoResolver
    /\ sched = NoSched
    /\ worker = NoWorker
    /\ run = [NoRun EXCEPT !.prior_events = Len(events)]

\* What a step of one thread in BuildHistory leaves alone.
HistoryUnchanged ==
    UNCHANGED <<cfg, overrides, cache_wheels, output_dir, attempt_counts, completed,
                performed, terminal, resolver, sched, run, worker>>

\* record_event, lines 47-75: the call builds its payload.
CallRecordEvent(w, e) ==
    /\ frame[w].pc = "idle"
    /\ calls < MaxEvents
    /\ calls' = calls + 1
    /\ frame' = [frame EXCEPT ![w] = HistoryFrame("payload", e)]
    /\ UNCHANGED <<events, ensure_ready_once>>
    /\ HistoryUnchanged

\* An acquire that does not wait for the holder.
AcquireLockUnguarded(w) ==
    /\ frame[w].pc = "payload"
    /\ frame' = [frame EXCEPT ![w].pc = "locked"]
    /\ UNCHANGED <<events, calls, ensure_ready_once>>
    /\ HistoryUnchanged

\* Line 76, `with self._lock, sqlite3.connect(self.path) as conn`: the thread
\* takes the lock when no thread holds it, and waits otherwise.
AcquireLock(w) ==
    /\ frame[w].pc = "payload"
    /\ LockHolders = {}
    /\ frame' = [frame EXCEPT ![w].pc = "locked"]
    /\ UNCHANGED <<events, calls, ensure_ready_once>>
    /\ HistoryUnchanged

\* Lines 77-88: the INSERT, not yet committed.
InsertRow(w) ==
    /\ frame[w].pc = "locked"
    /\ frame' = [frame EXCEPT ![w].pc = "inserted"]
    /\ UNCHANGED <<events, calls, ensure_ready_once>>
    /\ HistoryUnchanged

\* Line 90, conn.commit(): the row is in the table.
CommitRow(w) ==
    /\ frame[w].pc = "inserted"
    /\ events' = record_event(events, frame[w].event)
    /\ frame' = [frame EXCEPT ![w].pc = "committed"]
    /\ UNCHANGED <<calls, ensure_ready_once>>
    /\ HistoryUnchanged

\* The end of the with block: the lock is released and record_event returns.
ReleaseLock(w) ==
    /\ frame[w].pc = "committed"
    /\ frame' = [frame EXCEPT ![w].pc = "idle"]
    /\ UNCHANGED <<events, calls, ensure_ready_once>>
    /\ HistoryUnchanged

\* The default of recent's limit parameter (history.py 92).
DefaultLimit == 20

\* recent(), lines 92-102: a connection of its own, no use of self._lock; it
\* returns the committed rows, those of the given status when one is given
\* (`if status:`, lines 95-97; "" stands for None), newest first (ORDER BY id
\* DESC), at most `limit` of them.
recent(rows, limit, status) ==
    LET selected == IF status = "" THEN rows
                    ELSE SelectSeq(rows, LAMBDA e : e.status = status)
    IN [k \in 1..Min(limit, Len(selected)) |-> selected[Len(selected) + 1 - k]]

\* The newest row only, or the default limit.
RecentLimits == {1, DefaultLimit}

\* No status, a status the writers record, and one no row has.
RecentStatuses == {"", "failed_attempt", "built"}

QueryRecent(t) ==
    /\ \E limit \in RecentLimits, status \in RecentStatuses :
          frame' = [frame EXCEPT ![t].rows = recent(events, limit, status),
                                 ![t].read_under_lock = LockHolders # {}]
    /\ UNCHANGED <<events, calls, ensure_ready_once>>
    /\ HistoryUnchanged

NextWriters ==
    \/ \E w \in PoolThreads, e \in WriterEvents : CallRecordEvent(w, e)
    \/ \E w \in PoolThreads : AcquireLock(w)
    \/ \E w \in PoolThreads : InsertRow(w)
    \/ \E w \in PoolThreads : CommitRow(w)
    \/ \E w \in PoolThreads : ReleaseLock(w)
    \/ QueryRecent("main")

SpecWriters == InitWriters /\ [][NextWriters]_vars

\* C17: under any interleaving of record_event calls, at most one thread is
\* between taking the lock and releasing it; every call that has committed
\* has appended exactly one event, its own; and recent() can run in every
\* state, whoever holds the lock.
C17_SingleWriter ==
    /\ Cardinality(LockHolders) <= 1
    /\ Len(events) - run.prior_events
          = calls - Cardinality({ w \in PoolThreads :
                                    frame[w].pc \in {"payload", "locked", "inserted"} })
    /\ \A w \in PoolThreads :
          frame[w].pc = "committed" =>
             [events[Len(events)] EXCEPT !.id = 0] = frame[w].event
    /\ ENABLED QueryRecent("main")

\* One thread has inserted its row and holds the lock, the other waits with
\* its payload, an earlier call has committed its event, and recent() has
\* returned that event while the lock was held.
C17_Witness ==
    /\ frame["w1"].pc = "inserted"
    /\ frame["w2"].pc = "payload"
    /\ Len(events) = run.prior_events + 1
    /\ frame["main"].read_under_lock
    /\ frame["main"].rows = recent(events, DefaultLimit, "")
    /\ frame["main"].rows[1] = events[Len(events)]

----------------------------------------------------------------------------
\* SpecQueue: add and pop_all called in any order on a new RetryQueue.

MaxQueued == 3

QueueRequests ==
    { RetryRequest("pkg", "1", <<"dnf install foo">>),
      RetryRequest("pkg", "1", <<>>),
      RetryRequest("dep", "latest", <<"step1", "step2">>),
      RetryRequest("Dep", "", <<"step1">>) }

InitQueue ==
    /\ BuilderUnused
    /\ resolver = NoResolver
    /\ sched = NoSched
    /\ run = NoRun
    /\ worker = NoWorker

QueueAdd(request) ==
    LET r == add(worker.queue, request)
    IN /\ Len(worker.queue) < MaxQueued
       /\ worker' = [worker EXCEPT !.queue = r.queue,
                                   !.pending = Append(@, request),
                                   !.last = [op |-> "add", result |-> r.result,
                                             expected |-> <<>>]]
       /\ UNCHANGED bvars
       /\ UNCHANGED <<resolver, sched, run>>

QueuePopAll ==
    LET r == pop_all(worker.queue)
    IN /\ worker' = [worker EXCEPT !.queue = r.queue,
                                   !.pending = <<>>,
                                   !.last = [op |-> "pop_all", result |-> r.result,
                                             expected |-> worker.pending]]
       /\ UNCHANGED bvars
       /\ UNCHANGED <<resolver, sched, run>>

NextQueue ==
    \/ \E request \in QueueRequests : QueueAdd(request)
    \/ QueuePopAll

SpecQueue == InitQueue /\ [][NextQueue]_vars

\* C18: pop_all returns exactly the requests added and not yet popped, in the
\* order of their addition, and leaves the queue empty; add returns the
\* length of the queue after the insertion.
C18_QueueRoundTrip ==
    /\ worker.last.op = "pop_all" =>
          /\ worker.last.result = worker.last.expected
          /\ worker.queue = <<>>
    /\ worker.last.op = "add" =>
          /\ worker.last.result = Len(worker.queue)
          /\ worker.last.result = Len(worker.pending)

\* Two different requests were added after an earlier pop_all, and the next
\* pop_all returned the two, in that order.
C18_Witness ==
    /\ worker.last.op = "pop_all"
    /\ Len(worker.last.result) = 2
    /\ worker.last.result[1] = RetryRequest("dep", "latest", <<"step1", "step2">>)
    /\ worker.last.result[2] = RetryRequest("pkg", "1", <<"dnf install foo">>)
    /\ worker.queue = <<>>

----------------------------------------------------------------------------
\* SpecWorker: process_queue on a queue of retry requests, with the plan
\* build_plan returns for the input directory and a builder of its own.

MaxPopped == 2

WorkerRequests ==
    { RetryRequest("dep", "1.0.0", <<"s1">>),
      RetryRequest("DEP", "latest", <<"s1", "s1", "s2">>),
      RetryRequest("lib", "2.0", <<>>),
      RetryRequest("lib", "9", <<"s3">>) }

\* The wheels the cache directory can hold: none, those of an earlier run,
\* and with them a wheel of lib 2.0.
WorkerCaches ==
    { {}, PrecachedFiles, PrecachedFiles \cup {WheelFile("lib", "2.0", "py3", "any")} }

\* The queue file that holds the requests of a sequence.
RECURSIVE QueueOf(_)
QueueOf(requests) ==
    IF requests = <<>> THEN <<>>
    ELSE add(QueueOf(SubSeq(requests, 1, Len(requests) - 1)),
             requests[Len(requests)]).queue

InitWorker ==
    /\ cfg = Config(3, 5, 60, FALSE, TRUE, FALSE)
    /\ overrides = PlainOverrides
    /\ cache_wheels \in WorkerCaches
    /\ output_dir = {}
    /\ attempt_counts = [k \in AllKeys |-> 0]
    /\ completed = {}
    /\ events = <<>>
    /\ frame = [t \in Threads |-> IdleFrame]
    /\ performed = [k \in AllKeys |-> 0]
    /\ terminal = {}
    /\ calls = 0
    /\ ensure_ready_once = FALSE
    /\ resolver = NoResolver
    /\ sched = NoSched
    /\ run = NoRun
    /\ \E requests \in SeqsUpTo(WorkerRequests, MaxPopped), plan \in {PlanPinned, PlanTwoJobs} :
          worker = [WorkerStart(QueueOf(requests), plan) EXCEPT !.pending = requests]

\* worker.py 50-53: the job is one the request asks for.
RequestMatches(req, job) ==
    /\ Lower(job.name) = Lower(req.package)
    /\ req.version \in {"latest", ""} \/ job.version = req.version

\* worker.py 55-58 and 64-69: the override of the job's name is looked up or
\* created, and every step of the request that it does not hold is appended.
RECURSIVE AppendMissing(_, _)
AppendMissing(recipe, steps) ==
    IF steps = <<>> THEN recipe
    ELSE AppendMissing(IF \E k \in 1..Len(recipe) : recipe[k] = Head(steps)
                       THEN recipe ELSE Append(recipe, Head(steps)),
                       Tail(steps))

_get_or_create_override(job, ovs) ==
    IF _override_for(job, ovs) = ""
    THEN [ovs EXCEPT ![job.name] = Override(TRUE, <<>>, <<>>)]
    ELSE ovs

AddRecipes(req, job, ovs) ==
    LET created == _get_or_create_override(job, ovs)
        n == _override_for(job, created)
    IN [created EXCEPT ![n].system_recipe = AppendMissing(@, req.recipes)]

\* process_queue, lines 28-41: the queue is popped, which leaves [] in the
\* file; with no request the call returns, otherwise history and builder are
\* made and builder.ensure_ready() (line 42) starts its commands.
PopRequests ==
    LET r == pop_all(worker.queue)
    IN /\ worker.pc = "idle"
       /\ worker' = [worker EXCEPT
                        !.queue = r.queue,
                        !.last = [op |-> "pop_all", result |-> r.result,
                                  expected |-> worker.pending],
                        !.pending = <<>>,
                        !.requests = r.result,
                        !.pc = IF r.result = <<>> THEN "returned" ELSE "ensure_ready"]
       /\ UNCHANGED bvars
       /\ UNCHANGED <<resolver, sched, run>>

\* process_queue, lines 42-45: the commands of builder.ensure_ready() have
\* exited 0, the flag is set, the plan is made and the loop starts.
WorkerEnsureReadyOk ==
    /\ worker.pc = "ensure_ready"
    /\ worker' = [worker EXCEPT !.pc = "loop"]
    /\ ensure_ready_once' = TRUE
    /\ UNCHANGED <<cfg, overrides, cache_wheels, output_dir, attempt_counts, completed,
                   events, frame, performed, terminal, calls>>
    /\ UNCHANGED <<resolver, sched, run>>

\* process_queue, line 42: a command of builder.ensure_ready() exits non-zero
\* and CalledProcessError ends process_queue, after the queue was emptied.
WorkerEnsureReadyFails ==
    /\ worker.pc = "ensure_ready"
    /\ worker' = [worker EXCEPT !.pc = "raised",
                                !.error = "CalledProcessError:ensure_ready"]
    /\ UNCHANGED bvars
    /\ UNCHANGED <<resolver, sched, run>>

\* Lines 46-53: the next job of the plan does not match the request, or the
\* jobs of the plan are through and the next request is taken.
SkipJob ==
    LET jobs == worker.plan.to_build
    IN /\ worker.pc = "loop"
       /\ worker.i <= Len(worker.requests)
       /\ IF worker.j > Len(jobs)
          THEN worker' = [worker EXCEPT !.i = @ + 1, !.j = 1]
          ELSE /\ ~RequestMatches(worker.requests[worker.i], jobs[worker.j])
               /\ worker' = [worker EXCEPT !.j = @ + 1]
       /\ UNCHANGED bvars
       /\ UNCHANGED <<resolver, sched, run>>

\* Lines 54-58: the job matches; the steps of the request go into its
\* override.
ApplyRecipes ==
    LET jobs == worker.plan.to_build
    IN /\ worker.pc = "loop"
       /\ worker.i <= Len(worker.requests)
       /\ worker.j <= Len(jobs)
       /\ RequestMatches(worker.requests[worker.i], jobs[worker.j])
       /\ overrides' = AddRecipes(worker.requests[worker.i], jobs[worker.j], overrides)
       /\ worker' = [worker EXCEPT !.pc = "call"]
       /\ UNCHANGED <<cfg, cache_wheels, output_dir, attempt_counts, completed, events,
                      frame, performed, terminal, calls, ensure_ready_once>>
       /\ UNCHANGED <<resolver, sched, run>>

\* Line 59: builder.build_job(job).
CallBuildJob ==
    LET job == worker.plan.to_build[worker.j]
    IN /\ worker.pc = "call"
       /\ worker' = [worker EXCEPT !.pc = "building",
                                   !.built = Append(@, <<worker.i, job>>)]
       /\ calls' = calls + 1
       /\ Enter("main", job)
       /\ UNCHANGED run

\* build_job has returned: the loop goes on with the next job.
BuildReturned ==
    /\ worker.pc = "building"
    /\ frame["main"].pc = "returned"
    /\ worker' = [worker EXCEPT !.pc = "loop", !.j = @ + 1]
    /\ frame' = [frame EXCEPT !["main"] = IdleFrame]
    /\ UNCHANGED <<cfg, overrides, cache_wheels, output_dir, attempt_counts, completed,
                   events, performed, terminal, calls, ensure_ready_once>>
    /\ UNCHANGED <<resolver, sched, run>>

\* build_job has raised: nothing in process_queue catches it, the exception
\* leaves process_queue.
BuildRaised ==
    /\ worker.pc = "building"
    /\ frame["main"].pc = "raised"
    /\ worker' = [worker EXCEPT !.pc = "raised", !.error = frame["main"].error]
    /\ frame' = [frame EXCEPT !["main"] = IdleFrame]
    /\ UNCHANGED <<cfg, overrides, cache_wheels, output_dir, attempt_counts, completed,
                   events, performed, terminal, calls, ensure_ready_once>>
    /\ UNCHANGED <<resolver, sched, run>>

\* The loop over the requests is through: process_queue returns.
LoopDone ==
    /\ worker.pc = "loop"
    /\ worker.i > Len(worker.requests)
    /\ worker' = [worker EXCEPT !.pc = "returned"]
    /\ UNCHANGED bvars
    /\ UNCHANGED <<resolver, sched, run>>

NextWorker ==
    \/ PopRequests
    \/ WorkerEnsureReadyOk
    \/ WorkerEnsureReadyFails
    \/ SkipJob
    \/ ApplyRecipes
    \/ CallBuildJob
    \/ BuildReturned
    \/ BuildRaised
    \/ LoopDone
    \/ RecipeStepOk("main")
    \/ RecipeStepFails("main")
    \/ ReturnCached("main")
    \/ RecordCached("main")
    \/ CacheMiss("main")
    \/ AttemptFails("main")
    \/ AttemptTimesOut("main")
    \/ AttemptBuildsWheel("main")
    \/ BuildCommandRuns("main")
    \/ AttemptFindsNoWheel("main")
    \/ RecordFailedAttempt("main")
    \/ AfterLoop("main")

SpecWorker == InitWorker /\ [][NextWorker]_vars

\* For request i and plan job j that match: every step of the request is in
\* the job's override, once, and build_job was called once for the pair.
Processed(i, j) ==
    LET req == worker.requests[i]
        job == worker.plan.to_build[j]
        n == _override_for(job, overrides)
    IN /\ n # ""
       /\ \A k \in 1..Len(req.recipes) :
             Cardinality({ m \in 1..Len(overrides[n].system_recipe) :
                             overrides[n].system_recipe[m] = req.recipes[k] }) = 1
       /\ Cardinality({ m \in 1..Len(worker.built) : worker.built[m] = <<i, job>> }) = 1

AllProcessed ==
    /\ worker.queue = <<>>
    /\ worker.requests = worker.last.expected
    /\ \A i \in 1..Len(worker.requests) : \A j \in 1..Len(worker.plan.to_build) :
          IF RequestMatches(worker.requests[i], worker.plan.to_build[j])
          THEN Processed(i, j)
          ELSE \A m \in 1..Len(worker.built) : worker.built[m] # <<i, worker.plan.to_build[j]>>

\* C19: when process_queue has ended, the queue is empty and, for each popped
\* request and each plan job matching it (name without case, version equal or
\* the request's version "latest" or empty), the steps of the request are in
\* the job's override without duplicates and build_job was called exactly
\* once for the job.
C19_EveryMatchBuilt ==
    worker.pc \in {"returned", "raised"} => AllProcessed

\* The part of C19 that holds: it is so whenever process_queue returns.
C19_WhenReturned ==
    worker.pc = "returned" => AllProcessed

\* process_queue returned after two requests for one job: its override holds
\* s1 and s2 once each and build_job ran twice, once for each request.
C19_Witness ==
    /\ worker.pc = "returned"
    /\ Len(worker.requests) = 2
    /\ worker.requests[1].package = "dep" /\ worker.requests[2].package = "DEP"
    /\ Len(worker.built) = 2
    /\ \E n \in OverrideNames : overrides[n].system_recipe = <<"s1", "s2">>

----------------------------------------------------------------------------
\* The hint retry (builder.py 197-214).

\* The attempts the call of thread w made after its loop: the hint retry.
HintRetries(w) ==
    performed[KeyOf(frame[w].job)] - frame[w].performed_at_entry - Len(frame[w].log)
       - (IF frame[w].pc \in {"collect", "handler"} THEN 1 ELSE 0)

\* C20: a build_job call that has made all its configured attempts, each of
\* them failing, makes the hint-retry attempt once if the last failed attempt
\* carried a hint, and not at all otherwise.
C20_HintRetryOnce ==
    \A w \in Threads :
       LET f == frame[w]
       IN (Finished(f) /\ Len(f.log) = LoopAttempts(cfg.max_attempts)) =>
             HintRetries(w) = IF f.log[Len(f.log)].hint # "" THEN 1 ELSE 0

\* The part of C20 that holds: no call makes more than one hint retry, and
\* none without a hint on its last failed attempt.
C20_AtMostOnce ==
    \A w \in Threads :
       LET f == frame[w]
       IN f.pc # "idle" =>
             /\ HintRetries(w) \in {0, 1}
             /\ HintRetries(w) = 1 => f.log # <<>> /\ f.log[Len(f.log)].hint # ""

----------------------------------------------------------------------------
\* One event per attempt (builder.py 141-216, 317-351).

\* The events the call of thread w has recorded for its attempt number k:
\* rows of the job that carry the attempt index and a variant.
AttemptEvents(w, k) ==
    { i \in CallEvents(w, {"built", "failed_attempt"}) :
        /\ events[i].attempt = k
        /\ events[i].variant # "" }

\* C21: every attempt a build_job call has made, the hint retry included, has
\* an event of its outcome in the history, with the variant, the attempt index
\* and, for a failure that carried a hint, the hint, by the time the next
\* attempt starts or the call returns or raises.
C21_EventPerAttempt ==
    \A w \in Threads :
       LET f == frame[w]
       IN f.pc # "idle" =>
             /\ \A k \in 1..Len(f.log) :
                   \E i \in AttemptEvents(w, f.log[k].attempt) :
                       events[i].hint = f.log[k].hint
             /\ HintRetries(w) = 1 =>
                   AttemptEvents(w, LoopAttempts(cfg.max_attempts) + 1) # {}

\* The part of C21 that holds: an attempt whose failure carried no hint has
\* exactly one failed_attempt event with its index and the variant of that
\* index, recorded by the handler before the next attempt starts.
C21_UnhintedRecorded ==
    \A w \in Threads :
       LET f == frame[w]
       IN f.pc # "idle" =>
             \A k \in 1..Len(f.log) :
                f.log[k].hint = "" =>
                   /\ Cardinality(AttemptEvents(w, f.log[k].attempt)) = 1
                   /\ \A i \in AttemptEvents(w, f.log[k].attempt) :
                         /\ events[i].status = "failed_attempt"
                         /\ events[i].variant =
                               f.variants[Min(f.log[k].attempt, Len(f.variants))]

\* A call has raised after an attempt that timed out, and the history holds
\* no event of that attempt.
C21_HintedUnrecorded ==
    \E w \in Threads :
       LET f == frame[w]
       IN /\ f.pc = "raised" /\ f.log # <<>>
          /\ f.log[Len(f.log)].hint = TimeoutHint
          /\ AttemptEvents(w, f.log[Len(f.log)].attempt) = {}

\* C22: a call whose last configured attempt failed with a hint makes the
\* hint-retry attempt and ends with it: it returns a built result when that
\* attempt succeeds and raises "Exhausted" when it fails, with no attempt
\* after it.
C22_HintRetryTerminal ==
    \A w \in Threads :
       LET f == frame[w]
       IN ( /\ Finished(f)
            /\ Len(f.log) = LoopAttempts(cfg.max_attempts)
            /\ f.log[Len(f.log)].hint # "" ) =>
             /\ HintRetries(w) = 1
             /\ \/ f.pc = "returned" /\ f.result = "built"
                \/ f.pc = "raised" /\ f.error = "RuntimeError:Exhausted"

----------------------------------------------------------------------------
\* Requeueing in the runs of main (SpecRun): _enqueue_parents (cli.py
\* 334-388) is called at the job boundary for a job whose build_job call has
\* returned.

\* The parent names of which this run has recorded a requeued_parent event
\* (cli.py 354-362).
Requeued == { RunEvents[i].name : i \in { k \in 1..Len(RunEvents) :
                                            RunEvents[k].status = "requeued_parent" } }

\* The names of which this run has delivered a wheel: a manifest entry built
\* or cached.
BuiltInRun == { Lower(run.manifest[k].name) :
                   k \in { i \in 1..Len(run.manifest) :
                              run.manifest[i].status \in {"built", "cached"} } }

C23_NothingRequeued ==
    /\ Requeued = {}
    /\ completed = {}
    /\ \A k \in 1..Len(run.outcome) :
          run.outcome[k] = "returned" => run.jobs_to_run[k].parents = {}

----------------------------------------------------------------------------
\* SpecRunLive: the runs of SpecRun in which no thread stops for ever: a
\* command of a build_job call ends (by itself or by its timeout), a pool
\* thread with a submitted job starts it, and main goes on when it can.
SpecRunLive == InitRun /\ [][NextRun]_vars /\ WF_vars(NextRun)

\* C24: the run reaches quiescence: build_job is submitted for finitely many
\* jobs, and the run ends with the manifest written, sequentially and with a
\* pool.
C24_Quiescence ==
    <>(run.pc = "exited")

\* The part of C24 that holds: every run ends, with the manifest written or
\* by an exception of schedule_jobs or of builder.ensure_ready() (cli.py
\* 206, 208), ...
C24_EndsOrCrashes ==
    <>(run.pc \in {"exited", "crashed"})

\* ... build_job is called at most once per planned job, and a run that
\* reaches its build phase (cli.py 209) ends with the manifest written.
C24_FiniteSubmissions ==
    calls <= Len(run.plan.to_build)

C24_ScheduledRunEnds ==
    (run.pc = "build") ~> (run.pc = "exited")

----------------------------------------------------------------------------
\* The system recipe (builder.py 120-123, 417-464).

\* The call of thread w runs the recipe of its override: the override has
\* steps, recipes are allowed and it is not a dry run.
RunsRecipe(w) ==
    /\ frame[w].override # ""
    /\ overrides[frame[w].override].system_recipe # <<>>
    /\ cfg.allow_system_recipes
    /\ ~cfg.dry_run_recipes

\* C25: the steps of the recipe run in order, each step that exits 0 records
\* a success event, the first step that exits non-zero records a recipe
\* failure event and prevents the later steps and the build, and that failure
\* is a failure of the job's current attempt: it is recorded as a failed
\* attempt of the call, which goes on to its next attempt while any remains.
C25_RecipeFailureIsAttempt ==
    \A w \in Threads :
       LET f == frame[w]
       IN (f.pc = "raised" /\ f.error = "CalledProcessError") =>
             /\ Cardinality(CallEvents(w, {"system_recipe_failed"})) = 1
             /\ Cardinality(CallEvents(w, {"system_recipe_ran"})) = f.step - 1
             /\ Cardinality(CallEvents(w, {"failed_attempt"})) >= 1
             /\ performed[KeyOf(f.job)] - f.performed_at_entry
                   >= LoopAttempts(cfg.max_attempts) - 1

\* The part of C25 that holds: while the recipe runs, the steps before the
\* current one have each recorded a success event and nothing else has
\* happened; a failed step records one failure event after the successes of
\* the steps before it and ends the call before any later step, cache probe
\* or attempt; without permission, or in a dry run, no step runs.
C25_StepsInOrder ==
    \A w \in Threads :
       LET f == frame[w]
           ran == Cardinality(CallEvents(w, {"system_recipe_ran"}))
           failed == Cardinality(CallEvents(w, {"system_recipe_failed"}))
           attempts == performed[KeyOf(f.job)] - f.performed_at_entry
       IN f.pc # "idle" =>
             /\ f.pc = "recipe" =>
                   /\ RunsRecipe(w)
                   /\ ran = f.step - 1 /\ failed = 0 /\ attempts = 0
                   /\ f.step <= Len(overrides[f.override].system_recipe)
             /\ f.error = "CalledProcessError" =>
                   /\ failed = 1 /\ ran = f.step - 1 /\ attempts = 0
                   /\ ran < Len(overrides[f.override].system_recipe)
                   /\ CallEvents(w, {"cached", "failed_attempt", "built"}) = {}
                   /\ \A i \in CallEvents(w, {"system_recipe_ran"}) :
                         \A j \in CallEvents(w, {"system_recipe_failed"}) : i < j
             /\ (f.pc \notin {"recipe", "raised"} /\ RunsRecipe(w)) =>
                   /\ ran = Len(overrides[f.override].system_recipe)
                   /\ failed = 0
             /\ ~RunsRecipe(w) => ran = 0 /\ failed = 0

\* A call has ended by the failure of the second step of its recipe with
\* attempts left.
C25_SecondStepFailed ==
    \E w \in Threads :
       LET f == frame[w]
       IN /\ f.pc = "raised" /\ f.error = "CalledProcessError"
          /\ f.step = 2
          /\ cfg.max_attempts = 3

----------------------------------------------------------------------------
\* SpecCommands: build_job with commands that may never exit on their own.
\* subprocess.run of _run_capture is given timeout=attempt_timeout (builder.py
\* 386-392): a download or build that does not exit ends in TimeoutExpired,
\* which is the outcome of AttemptTimesOut.  subprocess.run of
\* _run_system_recipe (line 434) is given no timeout.

\* A recipe step that never exits: subprocess.run does not return, and the
\* call stays in it for ever.
RecipeStepHangs(w) ==
    LET f == frame[w]
    IN /\ f.pc = "recipe"
       /\ frame' = [frame EXCEPT ![w] = [f EXCEPT !.pc = "in_command"]]
       /\ UNCHANGED <<cfg, overrides, cache_wheels, output_dir, attempt_counts,
                      completed, events, performed, terminal, calls, ensure_ready_once, run,
                      resolver, sched, worker>>

\* A command of ensure_ready that never exits: _run (builder.py 361-363) gives
\* subprocess.run no timeout either.
EnsureReadyHangs(w) ==
    LET f == frame[w]
    IN /\ f.pc = "ensure_ready"
       /\ frame' = [frame EXCEPT ![w] = [f EXCEPT !.pc = "in_command"]]
       /\ UNCHANGED <<cfg, overrides, cache_wheels, output_dir, attempt_counts,
                      completed, events, performed, terminal, calls, ensure_ready_once, run,
                      resolver, sched, worker>>

InitCommands ==
    /\ InitBuilder
    /\ overrides = RecipeOverrides

NextCommands ==
    \/ \E job \in BuilderJobs : Invoke(job)
    \/ EnsureReadyOk("main")
    \/ EnsureReadyFails("main")
    \/ EnsureReadyHangs("main")
    \/ RecipeStepOk("main")
    \/ RecipeStepFails("main")
    \/ RecipeStepHangs("main")
    \/ ReturnCached("main")
    \/ RecordCached("main")
    \/ CacheMiss("main")
    \/ AttemptFails("main")
    \/ AttemptTimesOut("main")
    \/ AttemptBuildsWheel("main")
    \/ BuildCommandRuns("main")
    \/ AttemptFindsNoWheel("main")
    \/ RecordFailedAttempt("main")
    \/ AfterLoop("main")

\* Every step that can be taken is taken in the end: a command that exits is
\* waited for, and the timeout of subprocess.run fires.
SpecCommands == InitCommands /\ [][NextCommands]_vars /\ WF_vars(NextCommands)

\* C26: every command of a job runs under the configured timeout, so every
\* build_job call returns or raises in the end, whatever its commands do, ...
C26_CallEnds ==
    \A w \in {"main"} :
       (frame[w].pc # "idle") ~> Finished(frame[w])

\* ... and an attempt whose command timed out has failed with the fixed
\* timeout hint.  (This half holds.)
C26_TimeoutHint ==
    \A w \in Threads :
       \A k \in 1..Len(frame[w].log) :
          frame[w].log[k].hint # "" =>
             /\ frame[w].log[k].hint = "Increase attempt timeout or check hanging build step"
             /\ frame[w].log[k].found = NoFile

\* The part of C26's first half that holds: a call that is past its recipe
\* returns or raises.
C26_PastRecipeEnds ==
    \A w \in {"main"} :
       (frame[w].pc \in {"probe", "cached", "attempt", "collect", "handler", "after_loop"})
          ~> Finished(frame[w])

----------------------------------------------------------------------------
\* SpecVariants: build_job on a builder whose history holds the events of
\* earlier builds of the package (builder.py 137-142, 532-547).

\* The rows an earlier build of dep left: built and failed attempts with
\* their variant, and a cached event whose metadata mentions the word.
RatedRows ==
    { Event([name |-> "dep", version |-> "1.0.0"], "built", 1, "no_isolation", ""),
      Event([name |-> "dep", version |-> "1.0.0"], "built", 1, "arch_tweak", ""),
      Event([name |-> "dep", version |-> "1.0.0"], "failed_attempt", 1, "default", ""),
      Event([name |-> "dep", version |-> "1.0.0"], "failed_attempt", 2, "no_isolation", ""),
      [Event([name |-> "dep", version |-> "1.0.0"], "cached", 0, "", "")
          EXCEPT !.mentions_variant = TRUE] }

RatedHistories == { RecordAll(<<>>, s) : s \in SeqsUpTo(RatedRows, MaxEvents) }

InitVariants ==
    /\ cfg = Config(MaxAttemptsBound, 5, 60, FALSE, TRUE, FALSE)
    /\ overrides = PlainOverrides
    /\ cache_wheels = {}
    /\ output_dir = {}
    /\ attempt_counts = [k \in AllKeys |-> 0]
    /\ completed = {}
    /\ events \in RatedHistories
    /\ frame = [t \in Threads |-> IdleFrame]
    /\ performed = [k \in AllKeys |-> 0]
    /\ terminal = {}
    /\ calls = 0
    /\ ensure_ready_once = FALSE
    /\ resolver = NoResolver
    /\ sched = NoSched
    /\ worker = NoWorker
    /\ run = NoRun

\* The first build_job call of the builder.
InvokeFirst(job) ==
    /\ frame["main"].pc = "idle"
    /\ Invoke(job)

NextVariants ==
    \/ \E job \in BuilderJobs : InvokeFirst(job)
    \/ EnsureReadyOk("main")
    \/ EnsureReadyFails("main")
    \/ CacheMiss("main")
    \/ AttemptFails("main")
    \/ AttemptTimesOut("main")
    \/ AttemptBuildsWheel("main")
    \/ BuildCommandRuns("main")
    \/ AttemptFindsNoWheel("main")
    \/ RecordFailedAttempt("main")
    \/ AfterLoop("main")

SpecVariants == InitVariants /\ [][NextVariants]_vars

\* The place of a variant in the base list.
BaseIndex(v) == CHOOSE i \in 1..Len(BaseVariants) : BaseVariants[i] = v

\* The history as it was when the call of thread w entered build_job.
HistoryAtEntry(w) == SubSeq(events, 1, frame[w].ev_start)

\* C27: the variant list of a build_job call is a permutation of the base
\* list, in order of non-increasing success rate of the package in the
\* history, the variants without a recorded rate in their default order; the
\* attempt of index k has used the k-th variant, and the last one when k is
\* larger than the list.
C27_VariantsRanked ==
    \A w \in Threads :
       LET f == frame[w]
           vs == f.variants
           rate(v) == variant_success_rate(HistoryAtEntry(w), f.job.name, v)
       IN f.attempt >= 1 =>
             /\ Len(vs) = Len(BaseVariants)
             /\ \A v \in SeqToSet(BaseVariants) :
                   Cardinality({ k \in 1..Len(vs) : vs[k] = v }) = 1
             /\ \A i, j \in 1..Len(vs) :
                   i < j =>
                      /\ rate(vs[i])[1] * Max(1, rate(vs[j])[2])
                            >= rate(vs[j])[1] * Max(1, rate(vs[i])[2])
                      /\ (rate(vs[i])[2] = 0 /\ rate(vs[j])[2] = 0) =>
                            BaseIndex(vs[i]) < BaseIndex(vs[j])
             /\ \A i \in CallEvents(w, {"failed_attempt"}) :
                   events[i].variant = vs[Min(events[i].attempt, Len(vs))]

\* A call on a history that ranks arch_tweak first and no_isolation second
\* has made its fourth attempt, with the last variant of its list.
C27_Witness ==
    \E w \in Threads :
       /\ frame[w].variants = <<"arch_tweak", "no_isolation", "default">>
       /\ \E i \in CallEvents(w, {"failed_attempt"}) :
             events[i].attempt = 4 /\ events[i].variant = "default"

----------------------------------------------------------------------------
\* A build that exits 0 and leaves no matching wheel (builder.py 317-319).

\* Thread w is in _attempt_build after a build command that exited 0, and
\* the cache holds no wheel of the job.
BuildLeftNoMatch(w) ==
    /\ frame[w].pc = "collect"
    /\ _find_cached(frame[w].job, cache_wheels) = NoFile

\* Thread w is in the handler of the RuntimeError of line 319.
NotFoundRaised(w) ==
    /\ frame[w].pc = "handler"
    /\ frame[w].found = NoFile

\* C28: an attempt whose build command exits 0 with no matching wheel in the
\* cache afterwards is an ordinary attempt failure: the lookup copies nothing
\* to the output and leaves the completed set and the attempt counter alone,
\* the handler records one failed_attempt event of the attempt and its
\* variant, and the next attempt follows if one remains.
C28_NotFoundIsFailure ==
    [][ \A w \in Threads :
          LET f == frame[w]
              attempts == LoopAttempts(cfg.max_attempts)
          IN /\ (BuildLeftNoMatch(w) /\ frame'[w] # f) =>
                   /\ NotFoundRaised(w)'
                   /\ frame'[w].exc = "RuntimeError"
                   /\ events' = events
                   /\ output_dir' = output_dir
                   /\ completed' = completed
                   /\ attempt_counts' = attempt_counts
             /\ (NotFoundRaised(w) /\ frame'[w] # f) =>
                   /\ Len(events') = Len(events) + 1
                   /\ SubSeq(events', 1, Len(events)) = events
                   /\ events'[Len(events')].status = "failed_attempt"
                   /\ events'[Len(events')].name = f.job.name
                   /\ events'[Len(events')].version = f.job.version
                   /\ events'[Len(events')].attempt = f.attempt
                   /\ events'[Len(events')].variant =
                         f.variants[Min(f.attempt, Len(f.variants))]
                   /\ output_dir' = output_dir
                   /\ completed' = completed
                   /\ attempt_counts' = attempt_counts
                   /\ frame'[w].attempt = f.attempt + 1
                   /\ frame'[w].pc = IF f.attempt < attempts THEN "attempt"
                                     ELSE "after_loop"
      ]_vars

\* The build of the first attempt for lib "latest" has left lib-2.0 in the
\* cache, which is no wheel of the job, and the second attempt is due.
C28_Witness ==
    \E w \in Threads :
       LET f == frame[w]
       IN /\ f.pc = "attempt" /\ f.attempt = 2
          /\ f.job.version = "latest"
          /\ WheelFile("lib", "2.0", "cp311", "linux_s390x") \in cache_wheels \ f.cache_at_entry
          /\ Len(f.log) = 1 /\ f.log[1].found = NoFile /\ f.log[1].hint = ""
          /\ Cardinality(CallEvents(w, {"failed_attempt"})) = 1
          /\ output_dir = {}

----------------------------------------------------------------------------
\* The skip-known-failures policy (cli.py 177-203).

\* The history as the loop over plan.to_build found it: the rows of earlier
\* runs and the reused events of this run.
HistoryAtFilter == SubSeq(events, 1, run.prior_events + Len(run.plan.reusable))

\* The job was given a skipped_known_failure entry.
Skipped(job) ==
    \E k \in 1..Len(run.manifest) :
       run.manifest[k] = Entry(job.name, job.version, "skipped_known_failure")

\* build_job has been called for the job and has returned or raised.
BuildJobCalled(job) ==
    \E k \in 1..Len(run.jobs_to_run) :
       run.jobs_to_run[k] = job /\ run.outcome[k] \in {"returned", "raised"}

\* The run is over: main has returned or has been left by an exception.
RunOver == run.pc \in {"exited", "crashed"}

\* C29: with --skip-known-failures a planned job is withheld and gets a
\* skipped_known_failure entry exactly when the last event of its name and
\* version has status failed or missing; every other planned job is handed to
\* the scheduler and built.
C29_SkipFailedOrMissing ==
    (run.args.skip_known_failures /\ run.pc \notin {"reusables", "filter"}) =>
       \A job \in SeqToSet(run.plan.to_build) :
          LET last == last_event(HistoryAtFilter, job.name, job.version)
          IN /\ Skipped(job) <=> last.status \in {"failed", "missing"}
             /\ Skipped(job) <=> job \notin SeqToSet(run.jobs_to_run)
             /\ (RunOver /\ ~Skipped(job)) => BuildJobCalled(job)

\* What holds of the policy: the statuses that withhold a job are failed,
\* missing and system_recipe_failed; a job is handed to schedule_jobs exactly
\* when it is not withheld; in a run that ends with the manifest written
\* build_job was called for every job that was not withheld; and without the
\* option no job is withheld.
C29_SkipsKnownFailures ==
    run.pc \notin {"reusables", "filter"} =>
       \A job \in SeqToSet(run.plan.to_build) :
          LET last == last_event(HistoryAtFilter, job.name, job.version)
          IN /\ Skipped(job) <=>
                   /\ run.args.skip_known_failures
                   /\ last.status \in {"failed", "missing", "system_recipe_failed"}
             /\ Skipped(job) <=> job \notin SeqToSet(run.jobs_to_run)
             /\ (run.pc = "exited" /\ ~Skipped(job)) => BuildJobCalled(job)

\* A run has withheld dep 1.0.0, whose last event was a failed recipe step.
C29_RecipeFailureWithheld ==
    /\ run.pc = "exited"
    /\ Skipped(Job("dep", "1.0.0", "missing dependency", 0, {}))
    /\ last_event(HistoryAtFilter, "dep", "1.0.0").status = "system_recipe_failed"

----------------------------------------------------------------------------
\* Phase 2 of build_plan and the index (resolver.py 84-108, 184-191).

\* The policy lets phase 2 consult the index: eager, or fallback_latest.
PolicyAllowsIndex(settings) == settings.eager \/ settings.fallback_latest

\* The versions phase 1 observed locally that the specifier of req admits.
LocalAdmitted(r, req) ==
    { v \in r.all_versions[Lower(req.name)] : req.op = "" \/ SpecifierContains(req, v) }

\* The requirement phase 2 is at reaches the candidate search: it is neither
\* satisfied by a reusable or planned version nor pinned.
SearchesCandidate(r) ==
    LET reqs == _collect_requirements(r.wheels)
    IN /\ r.pc = "resolve"
       /\ r.j <= Len(reqs)
       /\ ~_satisfies(reqs[r.j], _merged_versions(r.reusable_versions[Lower(reqs[r.j].name)],
                                                   r.planned_versions[Lower(reqs[r.j].name)]))
       /\ _pinned_version(reqs[r.j]) = ""

\* C30: a step of build_plan calls index_client.versions only in phase 2, for
\* an unpinned unsatisfied requirement, and only when the policy is eager or
\* fallback_latest is enabled (and a client exists); under the pinned policy
\* without fallback such a step asks nothing, and it plans the greatest locally
\* observed version the specifier admits, or reports the requirement missing
\* when there is none (or when that version is already planned).
C30_IndexOnlyWhenAllowed ==
    [][ LET r == resolver
            reqs == _collect_requirements(r.wheels)
        IN /\ (resolver'.queried # r.queried) =>
                /\ SearchesCandidate(r)
                /\ PolicyAllowsIndex(r.settings)
                /\ r.settings.index.present
                /\ resolver'.queried = Append(r.queried, reqs[r.j].name)
           /\ (SearchesCandidate(r) /\ ~PolicyAllowsIndex(r.settings) /\ resolver' # r) =>
                LET req == reqs[r.j]
                    local == LocalAdmitted(r, req)
                    best == CHOOSE v \in local : \A u \in local : VersionKey(u) <= VersionKey(v)
                IN /\ resolver'.queried = r.queried
                   /\ IF local = {} \/ _already_planned_version(req.name, best, r.plan.to_build)
                      THEN /\ resolver'.plan.missing_requirements =
                                Append(r.plan.missing_requirements, req)
                           /\ resolver'.plan.to_build = r.plan.to_build
                      ELSE /\ resolver'.plan.to_build =
                                Append(r.plan.to_build,
                                       Job(req.name, best,
                                           "missing compatible wheel for requirement", 0, {}))
                           /\ resolver'.plan.missing_requirements =
                                r.plan.missing_requirements
      ]_vars

\* Phase 2 has passed an unpinned requirement for "lib" under the pinned policy
\* without fallback, with an index that lists lib 2.0: nothing was asked of the
\* index and the requirement was reported missing.
C30_Witness ==
    LET r == resolver
        reqs == _collect_requirements(r.wheels)
    IN /\ r.pc = "resolve"
       /\ r.settings.index = IndexStocked
       /\ ~PolicyAllowsIndex(r.settings)
       /\ r.j > 1
       /\ _pinned_version(reqs[r.j - 1]) = ""
       /\ reqs[r.j - 1].name = "lib"
       /\ r.queried = <<>>
       /\ r.plan.to_build = <<>>
       /\ Len(r.plan.missing_requirements) > 0
       /\ r.plan.missing_requirements[Len(r.plan.missing_requirements)] = reqs[r.j - 1]

\* The other side: under the eager policy the same requirement is asked of the
\* index and planned at the version the index lists.
C30_EagerAsks ==
    LET r == resolver
    IN /\ r.settings.index = IndexStocked
       /\ r.settings.eager
       /\ r.queried = <<"lib">>
       /\ \E k \in 1..Len(r.plan.to_build) :
             r.plan.to_build[k].name = "lib" /\ r.plan.to_build[k].version = "2.0"

----------------------------------------------------------------------------
\* Dependency expansion (resolver.py 116-145, dependency_expander.py).

\* The jobs of a returned plan that are not expansion jobs.
PlannedBeforeExpansion(r) ==
    { k \in 1..Len(r.plan.to_build) : r.plan.to_build[k].reason # "dependency expansion" }

\* The in-budget jobs of the plan that request the name: jobs for which the
\* scan knows a wheel (same lowercased name) with a requirement of that name.
Requesters(r, name) ==
    { r.plan.to_build[k].name : k \in
        { k \in PlannedBeforeExpansion(r) :
            /\ r.plan.to_build[k].depth < max_dep_depth
            /\ \E w \in 1..Len(r.wheels) :
                  /\ Lower(r.wheels[w].name) = Lower(r.plan.to_build[k].name)
                  /\ \E q \in 1..Len(r.wheels[w].requires_dist) :
                        Lower(r.wheels[w].requires_dist[q].name) = name } }

\* C31 (as claimed): in a returned plan every expansion job is for a name that
\* an in-budget job to build requests, and its parents are the jobs that
\* request it.
C31_ExpansionRequested ==
    LET r == resolver
    IN r.pc = "returned" =>
         \A k \in 1..Len(r.plan.dependency_expansions) :
            LET e == r.plan.dependency_expansions[k]
            IN /\ Requesters(r, e.name) # {}
               /\ e.parents = Requesters(r, e.name)

\* C31, the part that holds: expansion needs a client, adds at most
\* max_dep_attempts jobs, each with version "latest", depth 1, for a name some
\* scanned wheel requires and that neither a scanned wheel nor an in-budget job
\* bears, each in both lists; its parents are ALL in-budget jobs of the plan.
C31_ExpansionShape ==
    LET r == resolver
        exps == r.plan.dependency_expansions
        before == PlannedBeforeExpansion(r)
        reqs == _collect_requirements(r.wheels)
    IN /\ r.pc # "returned" => exps = <<>>
       /\ r.pc = "returned" =>
            /\ Len(exps) <= max_dep_attempts
            /\ exps # <<>> => r.settings.index.present /\ max_dep_depth > 0
            /\ \A k \in 1..Len(exps) :
                 /\ exps[k].version = "latest"
                 /\ exps[k].depth = 1
                 /\ exps[k].reason = "dependency expansion"
                 /\ \E q \in 1..Len(reqs) : Lower(reqs[q].name) = exps[k].name
                 /\ \A w \in 1..Len(r.wheels) : Lower(r.wheels[w].name) # exps[k].name
                 /\ \A j \in before :
                       r.plan.to_build[j].depth < max_dep_depth =>
                          Lower(r.plan.to_build[j].name) # exps[k].name
                 /\ \E j \in 1..Len(r.plan.to_build) : r.plan.to_build[j] = exps[k]
                 /\ exps[k].parents =
                      { r.plan.to_build[j].name :
                          j \in { i \in before : r.plan.to_build[i].depth < max_dep_depth } }
            /\ Cardinality({ j \in 1..Len(r.plan.to_build) :
                               r.plan.to_build[j].reason = "dependency expansion" })
                 = Len(exps)

\* A returned plan whose expansion job lib has the parent dep, a job for which
\* no requirement is known: lib is required by the reusable wheel app.
C31_ParentNeverAsked ==
    LET r == resolver
    IN /\ r.pc = "returned"
       /\ Len(r.plan.dependency_expansions) = 1
       /\ r.plan.dependency_expansions[1].name = "lib"
       /\ r.plan.dependency_expansions[1].parents = {"dep"}
       /\ Requesters(r, "lib") = {}

----------------------------------------------------------------------------
\* Unparsable input files (scanner.py 86-93, resolver.py 160-164).

\* The files of the scanned directory whose version cannot be parsed.
Unparsable(r) == { f \in r.dir : ~read_wheel_metadata_returns(f) }

\* C32 (as claimed): with an unparsable file in the input directory no Plan
\* is returned.
C32_UnparsableAborts ==
    Unparsable(resolver) # {} => resolver.pc # "returned"

\* C32, what the code does: after the scan the wheels are exactly the files
\* that could be read, so no wheel with an unparsable version is classified.
C32_UnparsableLeftOut ==
    LET r == resolver
    IN r.pc # "scan" =>
         /\ { r.wheels[k] : k \in 1..Len(r.wheels) } = r.dir \ Unparsable(r)
         /\ \A k \in 1..Len(r.wheels) : VersionKey(r.wheels[k].version) # 0

\* A Plan was returned for a directory that holds the unparsable file: the
\* file is in no list of the plan, and neither is its requirement lib>=1.0.
C32_PlanWithoutTheFile ==
    LET r == resolver
    IN /\ r.pc = "returned"
       /\ UnparsableWheel \in r.dir
       /\ \A k \in 1..Len(r.plan.reusable) : r.plan.reusable[k].name # "alpha"
       /\ \A k \in 1..Len(r.plan.to_build) :
             r.plan.to_build[k].name \notin {"alpha", "lib"}
       /\ r.plan.missing_requirements = <<>>
       /\ Len(r.plan.to_build) > 0

----------------------------------------------------------------------------
\* Unsatisfiable requirements (resolver.py 84-108, cli.py 251-269).

\* The manifest entries and the events of this run with status missing.
MissingEntries == { i \in 1..Len(run.manifest) : run.manifest[i].status = "missing" }
MissingEvents ==
    { i \in (run.prior_events + 1)..Len(events) : events[i].status = "missing" }

\* C33 (as claimed, the run): once the run is over, each unsatisfiable
\* requirement of the plan has one manifest entry with status missing and one
\* missing event.
C33_MissingReported ==
    RunOver =>
      /\ Cardinality(MissingEntries) = Len(run.plan.missing_requirements)
      /\ Cardinality(MissingEvents) = Len(run.plan.missing_requirements)
      /\ \A k \in 1..Len(run.plan.missing_requirements) :
            /\ \E i \in MissingEntries :
                  run.manifest[i].name = ReqStr(run.plan.missing_requirements[k])
            /\ \E i \in MissingEvents :
                  events[i].name = ReqStr(run.plan.missing_requirements[k])

\* C33, the run that reaches line 251: the same report in every run that ended
\* with the manifest written, after build_job was called for every job handed
\* to the scheduler.
C33_ReportedWhenRunEnds ==
    run.pc = "exited" =>
      /\ Cardinality(MissingEntries) = Len(run.plan.missing_requirements)
      /\ Cardinality(MissingEvents) = Len(run.plan.missing_requirements)
      /\ \A k \in 1..Len(run.plan.missing_requirements) :
            /\ \E i \in MissingEntries :
                  /\ run.manifest[i].name = ReqStr(run.plan.missing_requirements[k])
                  /\ run.manifest[i].version = "unknown"
            /\ \E i \in MissingEvents :
                  /\ events[i].name = ReqStr(run.plan.missing_requirements[k])
                  /\ events[i].version = "unknown"
      /\ \A k \in 1..Len(run.jobs_to_run) : run.outcome[k] # "none"

\* C33, the resolver: a step of phase 2 appends the requirement to
\* missing_requirements exactly when it is not satisfied by a reusable or
\* planned version, is not pinned, and no version of the candidate pool is
\* admitted by its specifier; that step goes on with the next requirement.
C33_MissingExactlyWhen ==
    [][ LET r == resolver
            reqs == _collect_requirements(r.wheels)
        IN (r.pc = "resolve" /\ r.j <= Len(reqs) /\ resolver' # r) =>
             LET req == reqs[r.j]
                 normalized == Lower(req.name)
                 pool == r.all_versions[normalized] \cup
                         (IF PolicyAllowsIndex(r.settings) /\ r.settings.index.present
                          THEN r.settings.index.versions[normalized] ELSE {})
                 unsatisfiable ==
                    /\ ~_satisfies(req, r.reusable_versions[normalized] \cup
                                        r.planned_versions[normalized])
                    /\ _pinned_version(req) = ""
                    /\ \A v \in pool : ~(req.op = "" \/ SpecifierContains(req, v))
             IN /\ unsatisfiable <=>
                     resolver'.plan.missing_requirements =
                        Append(r.plan.missing_requirements, req)
                /\ ~unsatisfiable =>
                     resolver'.plan.missing_requirements = r.plan.missing_requirements
                /\ unsatisfiable => resolver'.pc = "resolve" /\ resolver'.j = r.j + 1
      ]_vars

\* A run under the default shortest-first schedule whose plan holds a job and
\* an unsatisfiable requirement is over with no missing entry (no manifest is
\* written at all) and no missing event.
C33_CrashedUnreported ==
    /\ run.pc = "crashed"
    /\ run.plan.missing_requirements # <<>>
    /\ MissingEntries = {}
    /\ MissingEvents = {}

\* A fifo run with the same plan ended: lib>=1.0 reported missing once, both
\* jobs handed to the builder.
C33_FifoReported ==
    /\ run.pc = "exited"
    /\ run.plan = PlanExpanded
    /\ Cardinality(MissingEntries) = 1
    /\ Cardinality(MissingEvents) = 1
    /\ Len(run.jobs_to_run) = 2

----------------------------------------------------------------------------
\* The manifest entries of the jobs of a run (cli.py 208-249, 298-331).

\* The manifest entries that bear the name and version of the job.
EntriesOf(job) ==
    { i \in 1..Len(run.manifest) :
        run.manifest[i].name = job.name /\ run.manifest[i].version = job.version }

\* C34: in a run that ended, every job handed to the builder has exactly one
\* manifest entry, with status built, cached or failed; the entry says failed
\* exactly when the build_job call of the job raised, so no job has a built
\* (or cached) entry and a failed entry, and every failed entry bears the name
\* and version of a job whose call raised.
C34_OneEntryPerJob ==
    run.pc = "exited" =>
      /\ \A k \in 1..Len(run.jobs_to_run) :
            /\ Cardinality(EntriesOf(run.jobs_to_run[k])) = 1
            /\ \A i \in EntriesOf(run.jobs_to_run[k]) :
                  /\ run.manifest[i].status \in {"built", "cached", "failed"}
                  /\ run.manifest[i].status = "failed" <=> run.outcome[k] = "raised"
      /\ \A i \in 1..Len(run.manifest) :
            run.manifest[i].status = "failed" =>
               \E k \in 1..Len(run.jobs_to_run) :
                  /\ i \in EntriesOf(run.jobs_to_run[k])
                  /\ run.outcome[k] = "raised"

\* A run of the plan with the jobs dep 1.0.0 and the expansion job lib ended:
\* dep was served from the cache and lib failed, one entry each.
C34_Witness ==
    /\ run.pc = "exited"
    /\ run.plan = PlanExpanded
    /\ Len(run.jobs_to_run) = 2
    /\ \E i, j \in 1..Len(run.manifest) :
          /\ run.manifest[i] = Entry("dep", "1.0.0", "cached")
          /\ run.manifest[j] = Entry("lib", "latest", "failed")
    /\ Cardinality(EntriesOf(Job("dep", "1.0.0", "missing dependency", 0, {}))) = 1
    /\ Cardinality(EntriesOf(Job("lib", "latest", "dependency expansion", 1, {"dep"}))) = 1

----------------------------------------------------------------------------
\* SpecQueueRace: the retry endpoint and worker runs on one queue file
\* (queue.py 25-49, worker.py 28-29, web.py 231-250).  add and pop_all are
\* each a _load followed by a _save, with no lock on the file between them;
\* `queue` is what a _load of the file returns.

\* The processes that use the file: the web application, two worker runs.
Adders == {"web"}
Poppers == {"worker1", "worker2"}

\* The requests the endpoint is asked to enqueue, in order.
RaceRequests ==
    << RetryRequest("dep", "1.0.0", <<>>), RetryRequest("lib", "latest", <<"step1">>),
       RetryRequest("Dep", "1.0.0", <<>>) >>

\* The file, each process between its _load and its _save (`data` is what it
\* loaded), the requests whose add has returned, and what the pop_all calls
\* have returned, in the order of their return.
RaceStart ==
    [queue |-> <<>>,
     proc |-> [p \in Adders \cup Poppers |-> [pc |-> "idle", data |-> <<>>]],
     added |-> <<>>, delivered |-> <<>>]

InitQueueRace ==
    /\ BuilderUnused
    /\ resolver = NoResolver
    /\ sched = NoSched
    /\ run = NoRun
    /\ worker = RaceStart

\* RetryQueue.add, line 26: data = self._load()
AddLoads(p) ==
    /\ p \in Adders
    /\ worker.proc[p].pc = "idle"
    /\ Len(worker.added) < Len(RaceRequests)
    /\ worker' = [worker EXCEPT !.proc[p] = [pc |-> "add_loaded", data |-> worker.queue]]
    /\ UNCHANGED bvars
    /\ UNCHANGED <<resolver, sched, run>>

\* RetryQueue.add, lines 27-28, and _save, line 49: write_text opens the file
\* for writing, which empties it; until the text is written a _load of the
\* file fails to parse and returns [] (lines 43-46).
AddTruncates(p) ==
    /\ p \in Adders
    /\ worker.proc[p].pc = "add_loaded"
    /\ worker' = [worker EXCEPT !.queue = <<>>,
                                !.proc[p].pc = "add_saving"]
    /\ UNCHANGED bvars
    /\ UNCHANGED <<resolver, sched, run>>

\* RetryQueue.add, lines 28-29: the text of the list is written, add returns.
AddSaves(p) ==
    LET request == RaceRequests[Len(worker.added) + 1]
    IN /\ p \in Adders
       /\ worker.proc[p].pc = "add_saving"
       /\ worker' = [worker EXCEPT !.queue = add(worker.proc[p].data, request).queue,
                                   !.added = Append(@, request),
                                   !.proc[p] = [pc |-> "idle", data |-> <<>>]]
       /\ UNCHANGED bvars
       /\ UNCHANGED <<resolver, sched, run>>

\* RetryQueue.pop_all, line 32: data = self._load()
PopLoads(p) ==
    /\ p \in Poppers
    /\ worker.proc[p].pc = "idle"
    /\ worker' = [worker EXCEPT !.proc[p] = [pc |-> "pop_loaded", data |-> worker.queue]]
    /\ UNCHANGED bvars
    /\ UNCHANGED <<resolver, sched, run>>

\* RetryQueue.pop_all, line 33, and _save, line 49: write_text opens the file
\* for writing, which empties it.
PopTruncates(p) ==
    /\ p \in Poppers
    /\ worker.proc[p].pc = "pop_loaded"
    /\ worker' = [worker EXCEPT !.queue = <<>>,
                                !.proc[p].pc = "pop_saving"]
    /\ UNCHANGED bvars
    /\ UNCHANGED <<resolver, sched, run>>

\* RetryQueue.pop_all, lines 33-34: "[]" is written and the list returned.
PopSaves(p) ==
    LET r == pop_all(worker.proc[p].data)
    IN /\ p \in Poppers
       /\ worker.proc[p].pc = "pop_saving"
       /\ worker' = [worker EXCEPT !.queue = r.queue,
                                   !.delivered = @ \o r.result,
                                   !.proc[p] = [pc |-> "idle", data |-> <<>>]]
       /\ UNCHANGED bvars
       /\ UNCHANGED <<resolver, sched, run>>

NextQueueRace ==
    \/ \E p \in Adders : AddLoads(p)
    \/ \E p \in Adders : AddTruncates(p)
    \/ \E p \in Adders : AddSaves(p)
    \/ \E p \in Poppers : PopLoads(p)
    \/ \E p \in Poppers : PopTruncates(p)
    \/ \E p \in Poppers : PopSaves(p)

SpecQueueRace == InitQueueRace /\ [][NextQueueRace]_vars

\* How often the request occurs in a list of requests or of file items.
Occurrences(list, request) ==
    Cardinality({ k \in 1..Len(list) : FromItem(list[k]) = request })

\* No add and no pop_all is between its _load and its _save.
NoCallOpen == \A p \in Adders \cup Poppers : worker.proc[p].pc = "idle"

\* C35 (as claimed): no request is returned by pop_all twice, and whenever no
\* call is open every request whose add has returned has been returned by a
\* pop_all or is still in the file.
C35_ExactlyOnce ==
    \A k \in 1..Len(worker.added) :
       /\ Occurrences(worker.delivered, worker.added[k]) <= 1
       /\ NoCallOpen =>
            Occurrences(worker.delivered, worker.added[k])
              + Occurrences(worker.queue, worker.added[k]) = 1

\* A request returned twice: the add of the second request loaded the file
\* before a pop_all emptied it and saved after, bringing the first one back.
C35_DeliveredTwice ==
    /\ NoCallOpen
    /\ Occurrences(worker.delivered, RaceRequests[1]) = 2

\* A request lost: its add has returned, no call is open, and it is neither in
\* the file nor in what any pop_all returned.
C35_Lost ==
    /\ NoCallOpen
    /\ Len(worker.added) >= 2
    /\ Occurrences(worker.delivered, RaceRequests[2]) = 0
    /\ Occurrences(worker.queue, RaceRequests[2]) = 0

\* C35, what the file does guarantee: what pop_all returns and what the file
\* holds are requests that were added (or are being added), unchanged.
C35_OnlyAddedRequests ==
    /\ \A k \in 1..Len(worker.delivered) :
          \E i \in 1..Len(RaceRequests) :
             i <= Len(worker.added) /\ worker.delivered[k] = RaceRequests[i]
    /\ \A k \in 1..Len(worker.queue) :
          \E i \in 1..Len(RaceRequests) :
             i <= Len(worker.added) /\ FromItem(worker.queue[k]) = RaceRequests[i]

----------------------------------------------------------------------------
\* process_queue when a build raises (worker.py 28-61, queue.py 31-34).

\* The popped requests the loop of process_queue has not reached.
Unreached == (worker.i + 1)..Len(worker.requests)

\* C36 (as claimed): when process_queue has ended by an exception of
\* build_job, every popped request the loop did not reach is still in the
\* queue file.
C36_NoRequestDropped ==
    worker.pc = "raised" =>
       \A m \in Unreached : Occurrences(worker.queue, worker.requests[m]) >= 1

\* C36, what the code does: pop_all empties the file before the first request
\* is looked at, and nothing in process_queue writes to it again.
C36_QueueEmptiedFirst ==
    worker.pc # "idle" => worker.queue = <<>>

\* process_queue ended by the exception of the build for its first request:
\* the second request, which matches a job of the plan, was never looked at
\* and the file is empty.
C36_SecondRequestDropped ==
    /\ worker.pc = "raised"
    /\ worker.i = 1
    /\ Len(worker.requests) = 2
    /\ \E j \in 1..Len(worker.plan.to_build) :
          RequestMatches(worker.requests[2], worker.plan.to_build[j])
    /\ \A m \in 1..Len(worker.built) : worker.built[m][1] # 2
    /\ worker.queue = <<>>

----------------------------------------------------------------------------
\* SpecRerun: main run again and again with --skip-known-failures on the same
\* input, cache and history (cli.py 177-203, history.py 185-194).

\* The number of runs of main in a behaviour.
MaxRuns == 3

\* The runs made so far, the current one included; run.first is the run
\* before the current one.
RECURSIVE RunNumber(_)
RunNumber(r) == IF r.first.pc = "" THEN 1 ELSE 1 + RunNumber(r.first)

InitRerun ==
    /\ \E su \in RunSetups : cfg = su[1] /\ overrides = su[2]
    /\ cache_wheels \in { {}, PrecachedFiles }
    /\ output_dir = {}
    /\ attempt_counts = [k \in AllKeys |-> 0]
    /\ completed = {}
    /\ events \in RunHistories
    /\ frame = [t \in Threads |-> IdleFrame]
    /\ performed = [k \in AllKeys |-> 0]
    /\ terminal = {}
    /\ calls = 0
    /\ ensure_ready_once = FALSE
    /\ resolver = NoResolver
    /\ sched = NoSched
    /\ worker = NoWorker
    /\ \E plan \in {PlanPinned, PlanTwoJobs}, schedule \in {"shortest-first", "fifo"} :
          run = [RunStart(plan, Args(1, schedule, TRUE))
                    EXCEPT !.prior_events = Len(events),
                           !.initial = [cache_wheels |-> cache_wheels,
                                        overrides |-> overrides]]

\* main is called again with the same arguments: a new process (a new
\* builder, the overrides of the configuration) on the cache, the output
\* directory and the history the runs before it left.
RunAgain ==
    /\ run.pc \in {"exited", "crashed"}
    /\ RunNumber(run) < MaxRuns
    /\ run' = [RunStart(run.plan, run.args)
                  EXCEPT !.prior_events = Len(events),
                         !.initial = run.initial,
                         !.first = run]
    /\ overrides' = run.initial.overrides
    /\ attempt_counts' = [k \in AllKeys |-> 0]
    /\ completed' = {}
    /\ frame' = [t \in Threads |-> IdleFrame]
    /\ performed' = [k \in AllKeys |-> 0]
    /\ terminal' = {}
    /\ calls' = 0
    /\ ensure_ready_once' = FALSE
    /\ UNCHANGED <<cfg, cache_wheels, output_dir, events>>
    /\ UNCHANGED <<resolver, sched, worker>>

NextRerun ==
    \/ CopyReusables
    \/ FilterKnownFailures
    \/ ScheduleRun
    \/ StartJob("main")
    \/ JobBoundary("main")
    \/ Finish
    \/ RunAgain
    \/ RecipeStepOk("main")
    \/ RecipeStepFails("main")
    \/ ReturnCached("main")
    \/ RecordCached("main")
    \/ CacheMiss("main")
    \/ AttemptFails("main")
    \/ AttemptTimesOut("main")
    \/ AttemptBuildsWheel("main")
    \/ BuildCommandRuns("main")
    \/ AttemptFindsNoWheel("main")
    \/ RecordFailedAttempt("main")
    \/ AfterLoop("main")

SpecRerun == InitRerun /\ [][NextRerun]_vars

\* The run r gave the job a skipped_known_failure entry.
SkippedIn(r, job) ==
    \E k \in 1..Len(r.manifest) :
       r.manifest[k] = Entry(job.name, job.version, "skipped_known_failure")

\* The run r handed the job to the scheduler.
HandedOverIn(r, job) ==
    \E k \in 1..Len(r.jobs_to_run) : r.jobs_to_run[k] = job

\* The current run is past its loop over plan.to_build (lines 177-203).
FilterDone == run.pc \notin {"reusables", "filter"}

\* C37 (as claimed): a job the run before skipped as a known failure (nothing
\* built it in between) is skipped by the current run too.
C37_SkippedInEveryLaterRun ==
    (run.first.pc # "" /\ FilterDone) =>
       \A k \in 1..Len(run.plan.to_build) :
          SkippedIn(run.first, run.plan.to_build[k]) => SkippedIn(run, run.plan.to_build[k])

\* C37, what the code does: the skipped_known_failure event of the skip is
\* the last event of the job when the next run looks, and it is not one of
\* the statuses that withhold a job, so a job the run before skipped is always
\* handed to the scheduler by the current run.
C37_SkipMakesEligible ==
    (run.first.pc # "" /\ FilterDone) =>
       \A k \in 1..Len(run.plan.to_build) :
          SkippedIn(run.first, run.plan.to_build[k]) =>
             /\ ~SkippedIn(run, run.plan.to_build[k])
             /\ HandedOverIn(run, run.plan.to_build[k])
             /\ last_event(SubSeq(events, 1, run.prior_events),
                           run.plan.to_build[k].name,
                           run.plan.to_build[k].version).status = "skipped_known_failure"

\* The second run is over: the first run skipped dep 1.0.0, whose last event
\* was failed, and the second run called build_job for it.
C37_BuiltAfterSkip ==
    /\ run.pc = "exited"
    /\ RunNumber(run) = 2
    /\ SkippedIn(run.first, Job("dep", "1.0.0", "missing dependency", 0, {}))
    /\ BuildJobCalled(Job("dep", "1.0.0", "missing dependency", 0, {}))

\* The third run skips the job again: the build of the second run failed.
C37_SkippedEveryOtherRun ==
    /\ RunNumber(run) = 3
    /\ FilterDone
    /\ SkippedIn(run.first.first, Job("dep", "1.0.0", "missing dependency", 0, {}))
    /\ ~SkippedIn(run.first, Job("dep", "1.0.0", "missing dependency", 0, {}))
    /\ SkippedIn(run, Job("dep", "1.0.0", "missing dependency", 0, {}))

----------------------------------------------------------------------------
\* Reusable wheels and jobs to build (resolver.py 32-57, 148-150).

\* The (lowercased name, version) pairs of the two lists of a plan.
ReusablePairs(plan) ==
    { <<Lower(plan.reusable[k].name), plan.reusable[k].version>> :
        k \in 1..Len(plan.reusable) }
ToBuildPairs(plan) ==
    { KeyOf(plan.to_build[k]) : k \in 1..Len(plan.to_build) }

\* C38: in every Plan build_plan returns, no (lowercased name, version) pair
\* is both in reusable and in to_build.
C38_ReusableNotRebuilt ==
    resolver.pc = "returned" =>
       ReusablePairs(resolver.plan) \cap ToBuildPairs(resolver.plan) = {}

\* A Plan was returned for a directory with the universal wheel purepkg 1.0.0
\* and a requirement purepkg==1.0.0: purepkg is reusable, the plan has a job
\* to build, and none for purepkg.
C38_Witness ==
    LET r == resolver
        reqs == _collect_requirements(r.wheels)
    IN /\ r.pc = "returned"
       /\ <<"purepkg", "1.0.0">> \in ReusablePairs(r.plan)
       /\ \E q \in 1..Len(reqs) : reqs[q] = Req("purepkg", "==", "1.0.0")
       /\ r.plan.to_build # <<>>
       /\ \A k \in 1..Len(r.plan.to_build) : Lower(r.plan.to_build[k].name) # "purepkg"

\* Where the pairs differ and the version does not: purepkg 1.0.0 is reusable
\* and the requirement purepkg===1.0 plans a job for purepkg "1.0".
C38_OtherSpellingPlanned ==
    /\ resolver.pc = "returned"
    /\ <<"purepkg", "1.0.0">> \in ReusablePairs(resolver.plan)
    /\ <<"purepkg", "1.0">> \in ToBuildPairs(resolver.plan)

\* The directory that holds purepkg 1.0.0 twice, as a universal wheel and as
\* a wheel for another platform, gets no Plan: phase 1 raises on the second.
C38_TwinRaises ==
    (TwinWheel \in resolver.dir /\ resolver.pc \notin {"scan", "classify"}) =>
       resolver.pc = "raised" /\ resolver.error = "AttributeError"

----------------------------------------------------------------------------
\* The completed set of the builder (builder.py 124-135, 317-351).

\* The history holds a built event of the key.
HasBuiltEvent(key) ==
    \E i \in 1..Len(events) :
       events[i].status = "built" /\ <<Lower(events[i].name), events[i].version>> = key

\* The output directory holds a wheel of the key.
InOutput(key) ==
    \E file \in output_dir :
       /\ parse_wheel_filename(file).ok
       /\ <<Lower(parse_wheel_filename(file).name), parse_wheel_filename(file).version>> = key

\* The calls of the run that were served from the cache, and those that ended
\* with every attempt failed.
ServedFromCache(k) == run.outcome[k] = "returned" /\ run.trace[k].result = "cached"
AllAttemptsFailed(k) ==
    /\ run.outcome[k] = "raised"
    /\ run.trace[k].error = "RuntimeError:Exhausted"

\* C39: every key of the completed set has a built event in the history and a
\* wheel in the output directory; the key of a job that was served from the
\* cache, or whose attempts all failed, is not in the completed set.
C39_CompletedOnlyBuilt ==
    /\ \A key \in completed : HasBuiltEvent(key) /\ InOutput(key)
    /\ \A w \in Threads :
          (Finished(frame[w]) /\ (frame[w].result = "cached" \/ frame[w].error # "")) =>
             KeyOf(frame[w].job) \notin completed
    /\ \A k \in 1..Len(run.outcome) :
          (ServedFromCache(k) \/ AllAttemptsFailed(k)) =>
             KeyOf(run.jobs_to_run[k]) \notin completed

\* A run ended in which one job was served from the cache and the attempts of
\* another all failed; neither is in the completed set.
C39_Witness ==
    /\ run.pc = "exited"
    /\ \E k, m \in 1..Len(run.outcome) :
          /\ ServedFromCache(k)
          /\ AllAttemptsFailed(m)
          /\ Len(run.trace[m].log) = cfg.max_attempts
          /\ KeyOf(run.jobs_to_run[k]) \notin completed
          /\ KeyOf(run.jobs_to_run[m]) \notin completed

\* What keeps the set empty: a call whose attempt built the wheel and copied
\* it to the output directory has ended by an exception, with no built event
\* and the key not in the completed set.
C39_BuiltYetNotCompleted ==
    \E k \in 1..Len(run.outcome) :
       /\ run.outcome[k] = "raised"
       /\ \E a \in 1..Len(run.trace[k].log) : run.trace[k].log[a].found # NoFile
       /\ InOutput(KeyOf(run.jobs_to_run[k]))
       /\ ~HasBuiltEvent(KeyOf(run.jobs_to_run[k]))
       /\ completed = {}

\* No state of a run has a key in the completed set.
C39_NeverCompleted == completed = {}

====
